---- MODULE Spec2Model ----
(***************************************************************************)
(* Call-log ingestion engine of cheltuieli-v2.1:                           *)
(*   backend/app/api/apeluri.py        parse_queue_log, compute_stats,     *)
(*                                     percentile                          *)
(*   backend/app/api/apeluri_trend.py  parse_master_csv, percentile_val    *)
(*                                                                         *)
(* Text is modelled as it is in the program: a string is a sequence of     *)
(* one-character strings, so that str.split, str.strip, str.replace, int(),*)
(* strftime and strptime are computed and not assumed.  Floats are binary64*)
(* values with a 53-digit significand, rounded as the program rounds them. *)
(***************************************************************************)
EXTENDS Integers, Sequences, FiniteSets, TLC

VARIABLES
    lines,        \* the lines of the queue_log file read so far, in order
    calls,        \* parse_queue_log's dict callid -> call info (insertion order)
    pc,           \* "reading" (inside the for loop) or "done" (returned)
    result,       \* the returned dict: summary, calls, total
    trunc,        \* TRUE when the last line read was cut mid-write
    file_exists,  \* file_path.exists() at the call of parse_queue_log
    sorted_list,  \* argument of percentile / percentile_val
    p,            \* argument of percentile / percentile_val
    res,          \* what percentile returned, <<>> before the call
    res_val,      \* what percentile_val returned, <<>> before the call
    stat_list,    \* argument call_list of compute_stats
    stats,        \* what compute_stats returned or raised, <<>> before the call
    csv_rows,     \* the rows of Master.csv read so far, in order
    rows,         \* parse_master_csv's list of emitted rows
    days,         \* argument days of parse_master_csv, <<>> when not given
    now,          \* datetime.now() at the call of parse_master_csv
    weekly_counts, \* argument of linear_trend
    compensated,  \* TRUE when the interpreter's sum() of floats compensates (3.12 on)
    trend,        \* what linear_trend returned, <<>> before the call
    trend_stats,  \* what compute_trend_stats returned, <<>> before the call
    trend_lists,  \* trends_crestere, trends_scadere, trends_stabil and trends_churn of
                  \* compute_trend_stats before its return cuts them, <<>> before the call
    invocations,  \* the call frames of the invocations that run at the same time
    apeluri_zilnic,  \* the rows of table apeluri_zilnic
    apeluri_detalii, \* the rows of table apeluri_detalii
    id_seq,       \* the last ids the two tables gave out
    save_log,     \* the calls of do_save_apeluri so far: target date and file parsed
    exercitii,    \* the rows of table exercitii
    ex_op         \* the last operation on exercitii: its name, clock and outcome

parserVars == <<lines, calls, pc, result, trunc, file_exists>>
pctVars == <<sorted_list, p, res, res_val>>
statVars == <<stat_list, stats>>
csvVars == <<csv_rows, rows, days, now>>
trendVars == <<weekly_counts, compensated, trend, trend_stats, trend_lists>>
saveVars == <<apeluri_zilnic, apeluri_detalii, id_seq, save_log>>
exVars == <<exercitii, ex_op>>
extVars == <<trendVars, invocations, saveVars, exVars>>

vars == <<lines, calls, pc, result, trunc, file_exists, pctVars, statVars, csvVars, extVars>>

\* ------------------------------------------------------------------ bounds

\* lines per file
MaxLines == 3
\* length of the list handed to the percentile functions
MaxLen == 3
\* list values are the multiples of ValStep from -MaxVal * ValStep to MaxVal * ValStep
MaxVal == 2
\* seconds between two neighbouring list values
ValStep == 5

\* ------------------------------------------------------------------ text

None == <<>>
Some(x) == <<x>>

Digits == <<"0", "1", "2", "3", "4", "5", "6", "7", "8", "9">>
IsDigit(c) == \E i \in 1..10 : Digits[i] = c
DigitVal(c) == (CHOOSE i \in 1..10 : Digits[i] = c) - 1

\* str.isspace for the characters a log line can hold
IsSpace(c) == c \in {" ", "\t", "\n", "\r"}

RECURSIVE LStrip(_)
LStrip(s) == IF s # <<>> /\ IsSpace(Head(s)) THEN LStrip(Tail(s)) ELSE s

RECURSIVE RStrip(_)
RStrip(s) ==
    IF s # <<>> /\ IsSpace(s[Len(s)]) THEN RStrip(SubSeq(s, 1, Len(s) - 1)) ELSE s

\* str.strip()
Strip(s) == LStrip(RStrip(s))

RECURSIVE SplitAcc(_, _, _, _)
SplitAcc(s, i, cur, acc) ==
    IF i > Len(s) THEN Append(acc, cur)
    ELSE IF s[i] = "|" THEN SplitAcc(s, i + 1, <<>>, Append(acc, cur))
    ELSE SplitAcc(s, i + 1, Append(cur, s[i]), acc)

\* line.split("|")
Split(s) == SplitAcc(s, 1, <<>>, <<>>)

SipPrefix == <<"S", "I", "P", "/">>

RECURSIVE ReplaceSip(_)
\* agent.replace("SIP/", ""): every occurrence, left to right
ReplaceSip(s) ==
    IF s = <<>> THEN <<>>
    ELSE IF Len(s) >= 4 /\ SubSeq(s, 1, 4) = SipPrefix
         THEN ReplaceSip(SubSeq(s, 5, Len(s)))
         ELSE <<Head(s)>> \o ReplaceSip(Tail(s))

AllDigits(s) == s # <<>> /\ \A i \in 1..Len(s) : IsDigit(s[i])

RECURSIVE DigitsVal(_)
DigitsVal(s) ==
    IF s = <<>> THEN 0
    ELSE 10 * DigitsVal(SubSeq(s, 1, Len(s) - 1)) + DigitVal(s[Len(s)])

\* int(s) raises ValueError unless s, stripped, is an optional sign and digits
IsInt(s) ==
    LET t == Strip(s) IN
    IF t # <<>> /\ Head(t) \in {"+", "-"} THEN AllDigits(Tail(t)) ELSE AllDigits(t)

\* int(s)
IntVal(s) ==
    LET t == Strip(s) IN
    IF Head(t) = "-" THEN 0 - DigitsVal(Tail(t))
    ELSE IF Head(t) = "+" THEN DigitsVal(Tail(t))
    ELSE DigitsVal(t)

\* ord(c) for the characters of a display time
Code(c) == IF IsDigit(c) THEN 48 + DigitVal(c) ELSE 58

RECURSIVE StrLess(_, _)
\* a < b on str: lexicographic by code point
StrLess(a, b) ==
    IF b = <<>> THEN FALSE
    ELSE IF a = <<>> THEN TRUE
    ELSE IF Code(Head(a)) # Code(Head(b)) THEN Code(Head(a)) < Code(Head(b))
    ELSE StrLess(Tail(a), Tail(b))

\* ------------------------------------------------------------------ parse_queue_log

NONE == <<"N", "O", "N", "E">>
CONFIGRELOAD == <<"C", "O", "N", "F", "I", "G", "R", "E", "L", "O", "A", "D">>
ENTERQUEUE == <<"E", "N", "T", "E", "R", "Q", "U", "E", "U", "E">>
CONNECT == <<"C", "O", "N", "N", "E", "C", "T">>
COMPLETEAGENT == <<"C", "O", "M", "P", "L", "E", "T", "E", "A", "G", "E", "N", "T">>
COMPLETECALLER == <<"C", "O", "M", "P", "L", "E", "T", "E", "C", "A", "L", "L", "E", "R">>
ABANDON == <<"A", "B", "A", "N", "D", "O", "N">>
RINGNOANSWER == <<"R", "I", "N", "G", "N", "O", "A", "N", "S", "W", "E", "R">>

\* the dict created for a call id seen for the first time
NewCall(callid, queuename) ==
    [callid |-> callid, queue |-> queuename, caller_id |-> <<>>, agent |-> <<>>,
     status |-> "", enter_time |-> None, connect_time |-> None, end_time |-> None,
     hold_time |-> 0, call_time |-> 0, events |-> <<>>]

OnEnterQueue(call, ts, data_fields) ==
    [call EXCEPT !.enter_time = Some(ts),
                 !.caller_id = IF Len(data_fields) >= 2 THEN data_fields[2] ELSE @,
                 !.status = "IN_QUEUE"]

OnConnect(call, ts, agent, data_fields) ==
    [call EXCEPT !.connect_time = Some(ts),
                 !.agent = ReplaceSip(agent),
                 !.hold_time = IF data_fields # <<>> /\ IsInt(data_fields[1])
                               THEN IntVal(data_fields[1]) ELSE @,
                 !.status = "CONNECTED"]

\* the agent left as CONNECT set it
OnComplete_KeepsAgent(call, ts, agent, data_fields) ==
    [call EXCEPT !.end_time = Some(ts),
                 !.hold_time = IF Len(data_fields) >= 2 /\ IsInt(data_fields[1])
                               THEN IntVal(data_fields[1]) ELSE @,
                 !.call_time = IF Len(data_fields) >= 2 /\ IsInt(data_fields[1])
                                  /\ IsInt(data_fields[2])
                               THEN IntVal(data_fields[2]) ELSE @,
                 !.status = "COMPLETAT"]

\* hold_time is assigned before int(data_fields[1]) can raise
OnComplete(call, ts, agent, data_fields) ==
    [call EXCEPT !.end_time = Some(ts),
                 !.agent = ReplaceSip(agent),
                 !.hold_time = IF Len(data_fields) >= 2 /\ IsInt(data_fields[1])
                               THEN IntVal(data_fields[1]) ELSE @,
                 !.call_time = IF Len(data_fields) >= 2 /\ IsInt(data_fields[1])
                                  /\ IsInt(data_fields[2])
                               THEN IntVal(data_fields[2]) ELSE @,
                 !.status = "COMPLETAT"]

OnAbandon(call, ts, data_fields) ==
    [call EXCEPT !.end_time = Some(ts),
                 !.hold_time = IF Len(data_fields) >= 3 /\ IsInt(data_fields[3])
                               THEN IntVal(data_fields[3]) ELSE @,
                 !.status = "ABANDONAT"]

\* the guard on a completed / abandoned status left out
OnRingNoAnswer_Unguarded(call) == [call EXCEPT !.status = "NEPRELUATE"]

OnRingNoAnswer(call) ==
    IF call.status \notin {"COMPLETAT", "ABANDONAT"}
    THEN [call EXCEPT !.status = "NEPRELUATE"]
    ELSE call

\* the event name appended inside the branches only
ApplyEvent_RecognizedOnly(call, ts, agent, event, data_fields) ==
    CASE event = ENTERQUEUE ->
             [OnEnterQueue(call, ts, data_fields) EXCEPT !.events = Append(@, event)]
      [] event = CONNECT ->
             [OnConnect(call, ts, agent, data_fields) EXCEPT !.events = Append(@, event)]
      [] event \in {COMPLETEAGENT, COMPLETECALLER} ->
             [OnComplete(call, ts, agent, data_fields) EXCEPT !.events = Append(@, event)]
      [] event = ABANDON ->
             [OnAbandon(call, ts, data_fields) EXCEPT !.events = Append(@, event)]
      [] event = RINGNOANSWER ->
             [OnRingNoAnswer(call) EXCEPT !.events = Append(@, event)]
      [] OTHER -> call

\* the if / elif chain on the event name, then call["events"].append(event)
ApplyEvent(call, ts, agent, event, data_fields) ==
    LET c == CASE event = ENTERQUEUE -> OnEnterQueue(call, ts, data_fields)
               [] event = CONNECT -> OnConnect(call, ts, agent, data_fields)
               [] event \in {COMPLETEAGENT, COMPLETECALLER} ->
                      OnComplete(call, ts, agent, data_fields)
               [] event = ABANDON -> OnAbandon(call, ts, data_fields)
               [] event = RINGNOANSWER -> OnRingNoAnswer(call)
               [] OTHER -> call
    IN [c EXCEPT !.events = Append(@, event)]

HasCall(cs, callid) == \E i \in DOMAIN cs : cs[i].callid = callid
IndexOf(cs, callid) == CHOOSE i \in DOMAIN cs : cs[i].callid = callid

\* the record is created before the timestamp is parsed
EnsureCall(cs, callid, queuename) ==
    IF HasCall(cs, callid) THEN cs ELSE Append(cs, NewCall(callid, queuename))

\* one iteration of "for line in f"
ProcessLine(cs, raw) ==
    LET line == Strip(raw)
        parts == Split(line)
    IN  IF line = <<>> THEN cs
        ELSE IF Len(parts) < 5 THEN cs
        ELSE LET timestamp == parts[1]
                 callid == parts[2]
                 queuename == parts[3]
                 agent == parts[4]
                 event == parts[5]
                 data_fields == SubSeq(parts, 6, Len(parts))
             IN  IF callid = NONE \/ event = CONFIGRELOAD THEN cs
                 ELSE LET cs1 == EnsureCall(cs, callid, queuename)
                          i == IndexOf(cs1, callid)
                      IN  IF ~IsInt(timestamp) THEN cs1
                          ELSE [cs1 EXCEPT ![i] = ApplyEvent(cs1[i], IntVal(timestamp),
                                                             agent, event, data_fields)]

\* the unset status left out of the test
Finalize_NoUnset(cs) ==
    [i \in DOMAIN cs |->
        IF cs[i].status \in {"IN_QUEUE", "CONNECTED"}
        THEN [cs[i] EXCEPT !.status = "IN_CURS"]
        ELSE cs[i]]

\* "if still IN_QUEUE or CONNECTED, mark as active"
Finalize(cs) ==
    [i \in DOMAIN cs |->
        IF cs[i].status \in {"IN_QUEUE", "CONNECTED", ""}
        THEN [cs[i] EXCEPT !.status = "IN_CURS"]
        ELSE cs[i]]

\* offset of the server's local time from UTC, in seconds
TzOffset == 2 * 3600

\* "%02d"
Fmt2(n) == <<Digits[(n \div 10) + 1], Digits[(n % 10) + 1]>>

\* datetime.fromtimestamp(ts).strftime("%H:%M:%S")
StrfTime(ts) ==
    LET s == (ts + TzOffset) % 86400
    IN  Fmt2(s \div 3600) \o <<":">> \o Fmt2((s % 3600) \div 60) \o <<":">> \o Fmt2(s % 60)

\* enter_dt: an enter_time of None or 0 is falsy
EnterDt(call) ==
    IF call.enter_time # None /\ call.enter_time[1] # 0
    THEN StrfTime(call.enter_time[1])
    ELSE <<>>

BuildList(cs) ==
    [i \in DOMAIN cs |->
        [callid |-> cs[i].callid, queue |-> cs[i].queue, caller_id |-> cs[i].caller_id,
         agent |-> cs[i].agent, status |-> cs[i].status, ora |-> EnterDt(cs[i]),
         hold_time |-> cs[i].hold_time, call_time |-> cs[i].call_time]]

RECURSIVE InsertDesc_Unstable(_, _)
\* sorted ascending and then reversed: equal keys end in reverse order
InsertDesc_Unstable(acc, x) ==
    IF acc = <<>> THEN <<x>>
    ELSE IF ~StrLess(x.ora, Head(acc).ora) THEN <<x>> \o acc
    ELSE <<Head(acc)>> \o InsertDesc_Unstable(Tail(acc), x)

RECURSIVE InsertDesc(_, _)
\* x goes after every element whose key is not smaller than its own
InsertDesc(acc, x) ==
    IF acc = <<>> THEN <<x>>
    ELSE IF StrLess(Head(acc).ora, x.ora) THEN <<x>> \o acc
    ELSE <<Head(acc)>> \o InsertDesc(Tail(acc), x)

RECURSIVE SortAcc(_, _)
SortAcc(list, acc) ==
    IF list = <<>> THEN acc ELSE SortAcc(Tail(list), InsertDesc(acc, Head(list)))

\* call_list.sort(key=lambda c: c["ora"], reverse=True): stable, descending
SortByOraDesc(list) == SortAcc(list, <<>>)

\* ------------------------------------------------------------------ float (binary64)

\* Python's float is IEEE binary64: p / 100, the products and the sums of the
\* percentile functions and of compute_stats round to 53 binary digits, to
\* nearest, ties to even.  A natural number of any size is its digits in base
\* 2^10, least significant first, without a leading zero digit.
Base == 2 ^ 10

Pow2(k) == 2 ^ k

RECURSIVE Limbs(_)
Limbs(n) == IF n = 0 THEN <<>> ELSE <<n % Base>> \o Limbs(n \div Base)

RECURSIVE LVal(_)
LVal(b) == IF b = <<>> THEN 0 ELSE b[1] + Base * LVal(Tail(b))

RECURSIVE Norm(_)
Norm(b) == IF b # <<>> /\ b[Len(b)] = 0 THEN Norm(SubSeq(b, 1, Len(b) - 1)) ELSE b

\* number of binary digits
BitLen(b) ==
    IF b = <<>> THEN 0
    ELSE 10 * (Len(b) - 1)
         + (CHOOSE k \in 1..10 : Pow2(k - 1) <= b[Len(b)] /\ b[Len(b)] < Pow2(k))

RECURSIVE AddAcc(_, _, _, _)
AddAcc(a, b, i, carry) ==
    IF i > Len(a) /\ i > Len(b) THEN Limbs(carry)
    ELSE LET t == (IF i <= Len(a) THEN a[i] ELSE 0)
                  + (IF i <= Len(b) THEN b[i] ELSE 0) + carry
         IN  <<t % Base>> \o AddAcc(a, b, i + 1, t \div Base)

AddB(a, b) == AddAcc(a, b, 1, 0)

RECURSIVE SubAcc(_, _, _, _)
SubAcc(a, b, i, borrow) ==
    IF i > Len(a) THEN <<>>
    ELSE LET t == a[i] - (IF i <= Len(b) THEN b[i] ELSE 0) - borrow
         IN  <<(t + Base) % Base>> \o SubAcc(a, b, i + 1, IF t < 0 THEN 1 ELSE 0)

\* a - b for a >= b
SubB(a, b) == Norm(SubAcc(a, b, 1, 0))

\* a < b
LessB(a, b) ==
    \/ Len(a) < Len(b)
    \/ /\ Len(a) = Len(b)
       /\ \E i \in 1..Len(a) : a[i] < b[i] /\ \A j \in (i + 1)..Len(a) : a[j] = b[j]

RECURSIVE MulAcc(_, _, _, _)
MulAcc(b, n, i, carry) ==
    IF i > Len(b) THEN Limbs(carry)
    ELSE LET t == b[i] * n + carry
         IN  <<t % Base>> \o MulAcc(b, n, i + 1, t \div Base)

\* b times the natural number n, n below 2^20
MulSmall(b, n) == IF n = 0 THEN <<>> ELSE MulAcc(b, n, 1, 0)

RECURSIVE DivAcc(_, _, _, _)
DivAcc(b, d, i, r) ==
    IF i = 0 THEN [q |-> <<>>, r |-> r]
    ELSE LET t == r * Base + b[i]
             low == DivAcc(b, d, i - 1, t % d)
         IN  [q |-> Append(low.q, t \div d), r |-> low.r]

\* quotient and remainder of b by the positive number d, d below 2^20
DivSmall(b, d) ==
    LET qr == DivAcc(b, d, Len(b), 0) IN [q |-> Norm(qr.q), r |-> qr.r]

Min2(a, b) == IF a <= b THEN a ELSE b

\* b * 2^s
ShiftLeft(b, s) ==
    IF b = <<>> THEN <<>> ELSE [i \in 1..(s \div 10) |-> 0] \o MulSmall(b, Pow2(s % 10))

\* b \div 2^s, and whether anything nonzero was shifted out
ShiftRight(b, s) ==
    LET w == Min2(s \div 10, Len(b))
        d == DivSmall(SubSeq(b, w + 1, Len(b)), Pow2(s % 10))
    IN  [q |-> d.q, sticky |-> d.r # 0 \/ \E i \in 1..w : b[i] # 0]

Abs(n) == IF n < 0 THEN 0 - n ELSE n
Sign(n) == IF n < 0 THEN 0 - 1 ELSE 1

\* A float is sg * m * 2^e with m of 53 binary digits; 0.0 has m = <<>>.
DZero == [sg |-> 1, m |-> <<>>, e |-> 0]

\* a mantissa t of 53 or 54 binary digits at exponent e
Pack(sg, t, e) ==
    IF BitLen(t) = 54 THEN [sg |-> sg, m |-> DivSmall(t, 2).q, e |-> e + 1]
    ELSE [sg |-> sg, m |-> t, e |-> e]

\* to nearest, ties to even: top goes up when the digits cut off are more than
\* half a unit, or exactly half with top odd
Nearest(top, half, rest) ==
    IF half /\ (rest \/ top[1] % 2 = 1) THEN AddB(top, <<1>>) ELSE top

\* sh holds 54 binary digits: the last one is the half digit
RoundCut(sg, sh, e, sticky) ==
    Pack(sg, Nearest(DivSmall(sh.q, 2).q, sh.q[1] % 2 = 1, sticky \/ sh.sticky), e)

\* b has n binary digits
RoundBits(sg, b, e, sticky, n) ==
    IF n <= 53 THEN [sg |-> sg, m |-> ShiftLeft(b, 53 - n), e |-> e - (53 - n)]
    ELSE RoundCut(sg, ShiftRight(b, n - 54), e + (n - 53), sticky)

\* sg * b * 2^e (plus a nonzero rest below the last digit when sticky) as a float
Round53(sg, b, e, sticky) ==
    IF b = <<>> THEN DZero ELSE RoundBits(sg, b, e, sticky, BitLen(b))

\* float(n)
FromInt(n) == Round53(Sign(n), Limbs(Abs(n)), 0, FALSE)

\* a / b on two ints, b > 0: the correctly rounded quotient
DivII(a, b) ==
    IF a = 0 THEN DZero
    ELSE LET d == DivSmall(ShiftLeft(Limbs(Abs(a)), 80), b)
         IN  Round53(Sign(a), d.q, 0 - 80, d.r # 0)

\* x * n, a float by an int
MulDI(x, n) ==
    IF n = 0 \/ x.m = <<>> THEN DZero
    ELSE Round53(x.sg * Sign(n), MulSmall(x.m, Abs(n)), x.e, FALSE)

\* sa * a + sb * b as a sign and a magnitude
SignedSum(sa, a, sb, b) ==
    IF sa = sb THEN [sg |-> sa, m |-> AddB(a, b)]
    ELSE IF LessB(b, a) THEN [sg |-> sa, m |-> SubB(a, b)]
    ELSE [sg |-> sb, m |-> SubB(b, a)]

\* the sum s, counted in units of 2^ec, as a float
RoundSum(s, ec) == Round53(s.sg, s.m, ec, FALSE)

\* both operands in units of 2^ec, the smaller of the two exponents
AddAt(n, x, ec) ==
    RoundSum(SignedSum(Sign(n), ShiftLeft(Limbs(Abs(n)), 0 - ec),
                       x.sg, ShiftLeft(x.m, x.e - ec)), ec)

\* n + x, an int and a float
AddID(n, x) ==
    IF x.m = <<>> THEN FromInt(n)
    ELSE IF n = 0 THEN x
    ELSE AddAt(n, x, IF x.e < 0 THEN x.e ELSE 0)

\* int(x): toward zero
TruncD(x) ==
    IF x.m = <<>> THEN 0
    ELSE IF x.e >= 0 THEN x.sg * LVal(ShiftLeft(x.m, x.e))
    ELSE IF 53 + x.e <= 0 THEN 0
    ELSE x.sg * LVal(ShiftRight(x.m, 0 - x.e).q)

\* round(x): to the nearest int, ties to even
RoundD(x) ==
    IF x.m = <<>> THEN 0
    ELSE IF x.e >= 0 THEN x.sg * LVal(ShiftLeft(x.m, x.e))
    ELSE IF 53 + x.e < 0 THEN 0
    ELSE LET sh == ShiftRight(x.m, 0 - x.e - 1)
             v == LVal(sh.q)
             up == v % 2 = 1 /\ (sh.sticky \/ (v \div 2) % 2 = 1)
         IN  x.sg * ((v \div 2) + IF up THEN 1 ELSE 0)

\* a * b on two naturals of any size
RECURSIVE MulB(_, _)
MulB(a, b) ==
    IF a = <<>> \/ b = <<>> THEN <<>>
    ELSE AddB(MulSmall(a, b[1]), ShiftLeft(MulB(a, Tail(b)), 10))

RECURSIVE DigitAcc(_, _, _, _)
\* the greatest digit d with d * b <= r, settled from its top binary digit down
DigitAcc(r, b, d, k) ==
    IF k < 0 THEN d
    ELSE IF LessB(r, MulSmall(b, d + Pow2(k))) THEN DigitAcc(r, b, d, k - 1)
    ELSE DigitAcc(r, b, d + Pow2(k), k - 1)

\* one digit of the long division: t is the running remainder with the next
\* digit of the dividend brought down, d the digit of the quotient
DivStep(t, b, d) == [d |-> d, r |-> SubB(t, MulSmall(b, d))]

DivDigit(t, b) == DivStep(t, b, DigitAcc(t, b, 0, 9))

RECURSIVE DivBAcc(_, _, _, _, _)
\* the digit s.d is settled before the next digit of a is brought down
DivBNext(a, b, i, s, q) ==
    IF s.d < 0 THEN [q |-> q, r |-> s.r] ELSE DivBAcc(a, b, i - 1, s.r, <<s.d>> \o q)

\* long division from the top digit a[i] down; r is the running remainder and q
\* the digits of the quotient found so far
DivBAcc(a, b, i, r, q) ==
    IF i = 0 THEN [q |-> q, r |-> r]
    ELSE DivBNext(a, b, i, DivDigit(Norm(<<a[i]>> \o r), b), q)

\* quotient and remainder of a by b, two naturals of any size, b > 0
DivB(a, b) ==
    LET qr == DivBAcc(a, b, Len(a), <<>>, <<>>) IN [q |-> Norm(qr.q), r |-> qr.r]

\* -x
NegD(x) == IF x.m = <<>> THEN x ELSE [x EXCEPT !.sg = 0 - x.sg]

\* x * y on two floats
MulDD(x, y) ==
    IF x.m = <<>> \/ y.m = <<>> THEN DZero
    ELSE Round53(x.sg * y.sg, MulB(x.m, y.m), x.e + y.e, FALSE)

\* the quotient of the mantissas to 60 binary digits after the point
DivMant(x, y, d) == Round53(x.sg * y.sg, d.q, x.e - y.e - 60, d.r # <<>>)

\* x / y on two floats, y not 0.0
DivDD(x, y) ==
    IF x.m = <<>> THEN DZero ELSE DivMant(x, y, DivB(ShiftLeft(x.m, 60), y.m))

\* both operands in units of 2^ec
AddDAt(x, y, ec) ==
    RoundSum(SignedSum(x.sg, ShiftLeft(x.m, x.e - ec), y.sg, ShiftLeft(y.m, y.e - ec)), ec)

\* x + y on two floats
AddDD(x, y) ==
    IF x.m = <<>> THEN y
    ELSE IF y.m = <<>> THEN x
    ELSE AddDAt(x, y, Min2(x.e, y.e))

\* x > y on two floats
GreaterD(x, y) == AddDD(x, NegD(y)).m # <<>> /\ AddDD(x, NegD(y)).sg = 1

\* ------------------------------------------------------------------ percentile, percentile_val

\* k = (len(sorted_list) - 1) * (p / 100)
PosK(sl, pct) == MulDI(DivII(pct, 100), Len(sl) - 1)

\* int(sorted_list[f] + (k - f) * (sorted_list[c] - sorted_list[f]))
Interpolate(sl, k, f, c) ==
    TruncD(AddID(sl[f + 1], MulDI(AddID(0 - f, k), sl[c + 1] - sl[f + 1])))

\* the interpolation started from the upper neighbour
percentile_SwappedEnds(sl, pct) ==
    IF sl = <<>> THEN 0
    ELSE LET k == PosK(sl, pct)
             f == TruncD(k)
             c == f + 1
         IN  IF c >= Len(sl) THEN sl[f + 1]
             ELSE TruncD(AddID(sl[c + 1], MulDI(AddID(0 - f, k), sl[f + 1] - sl[c + 1])))

\* c = f + 1; if c >= len(sorted_list): return sorted_list[f]
Between(sl, k, f) ==
    IF f + 1 >= Len(sl) THEN sl[f + 1] ELSE Interpolate(sl, k, f, f + 1)

\* apeluri.py: the value at f when f + 1 is past the end
percentile(sl, pct) ==
    IF sl = <<>> THEN 0
    ELSE LET k == PosK(sl, pct) IN Between(sl, k, TruncD(k))

\* the position rounded to the nearest index instead of cut
percentile_val_RoundedPos(sl, pct) ==
    IF sl = <<>> THEN 0
    ELSE LET k == PosK(sl, pct)
             f == RoundD(k)
             c == Min2(f + 1, Len(sl) - 1)
         IN  Interpolate(sl, k, f, c)

\* c = min(f + 1, len(sorted_vals) - 1)
BetweenCapped(sl, k, f) == Interpolate(sl, k, f, Min2(f + 1, Len(sl) - 1))

\* apeluri_trend.py: c = min(f + 1, len - 1)
percentile_val(sl, pct) ==
    IF sl = <<>> THEN 0
    ELSE LET k == PosK(sl, pct) IN BetweenCapped(sl, k, TruncD(k))

\* ------------------------------------------------------------------ compute_stats

RECURSIVE InsertAsc(_, _)
InsertAsc(acc, v) ==
    IF acc = <<>> THEN <<v>>
    ELSE IF v < Head(acc) THEN <<v>> \o acc
    ELSE <<Head(acc)>> \o InsertAsc(Tail(acc), v)

RECURSIVE SortedAcc(_, _)
SortedAcc(list, acc) ==
    IF list = <<>> THEN acc ELSE SortedAcc(Tail(list), InsertAsc(acc, Head(list)))

\* sorted(values)
Sorted(values) == SortedAcc(values, <<>>)

RECURSIVE SumFrom(_, _, _)
\* values[lo] + ... + values[hi], by halves
SumFrom(values, lo, hi) ==
    IF lo > hi THEN 0
    ELSE IF lo = hi THEN values[lo]
    ELSE SumFrom(values, lo, (lo + hi) \div 2) + SumFrom(values, ((lo + hi) \div 2) + 1, hi)

\* sum(values) over ints
SumSeq(values) == SumFrom(values, 1, Len(values))

MinOf(sl) == CHOOSE x \in {sl[i] : i \in DOMAIN sl} : \A i \in DOMAIN sl : x <= sl[i]
MaxOf(sl) == CHOOSE x \in {sl[i] : i \in DOMAIN sl} : \A i \in DOMAIN sl : x >= sl[i]

\* round(statistics.mean(values)): the exact mean, converted to float, rounded
RoundMean(values) == RoundD(DivII(SumSeq(values), Len(values)))

\* round(statistics.median(values)) on sorted values: the middle one, or the
\* float (a + b) / 2 of the two middle ones
RoundMedian(values) ==
    LET n == Len(values) IN
    IF n % 2 = 1 THEN values[(n \div 2) + 1]
    ELSE RoundD(DivII(values[n \div 2] + values[(n \div 2) + 1], 2))

ZeroTimeStats == [avg |-> 0, median |-> 0, p90 |-> 0, min |-> 0, max |-> 0]

time_stats(values) ==
    IF values = <<>> THEN ZeroTimeStats
    ELSE [avg |-> RoundMean(values), median |-> RoundMedian(values),
          p90 |-> percentile(values, 90), min |-> MinOf(values), max |-> MaxOf(values)]

\* [c for c in call_list if c["status"] == st]
WithStatus(call_list, st) ==
    LET Test(c) == c.status = st IN SelectSeq(call_list, Test)

HoldTimes(call_list) == [i \in DOMAIN call_list |-> call_list[i].hold_time]

\* [c["call_time"] for c in answered if c["call_time"] > 0]
PositiveCallTimes(call_list) ==
    LET Test(c) == c.call_time > 0
        kept == SelectSeq(call_list, Test)
    IN  [i \in DOMAIN kept |-> kept[i].call_time]

RECURSIVE UpToColon(_)
\* ora.split(":")[0]
UpToColon(s) ==
    IF s = <<>> \/ Head(s) = ":" THEN <<>> ELSE <<Head(s)>> \o UpToColon(Tail(s))

\* int(ora.split(":")[0]): <<>> when ora is empty or int() raises ValueError
ParseHour(ora) ==
    IF ora # <<>> /\ IsInt(UpToColon(ora)) THEN Some(IntVal(UpToColon(ora))) ELSE None

Ora0915 == <<"0", "9", ":", "1", "5", ":", "0", "0">>
Ora0930 == <<"0", "9", ":", "3", "0", ":", "0", "0">>
Ora1000 == <<"1", "0", ":", "0", "0", ":", "0", "0">>
Ora2359 == <<"2", "3", ":", "5", "9", ":", "5", "9">>
Ora0005 == <<"0", "0", ":", "0", "5", ":", "0", "0">>
OraNoHour == <<"x", "x", ":", "0", "0", ":", "0", "0">>
Ora2400 == <<"2", "4", ":", "0", "0", ":", "0", "0">>

\* the display times of the compute_stats inputs, parsed once
OraPool == {<<>>, Ora0915, Ora0930, Ora1000, Ora2359, Ora0005, OraNoHour, Ora2400}
PoolHours == [o \in OraPool |-> ParseHour(o)]

\* the hour a call is counted in
HourOf(c) == IF c.ora \in OraPool THEN PoolHours[c.ora] ELSE ParseHour(c.ora)

\* the rate with a tie rounded up
Rate_HalfUp(part, whole) ==
    IF whole > 0 THEN (200 * part + whole) \div (2 * whole) ELSE 0

\* round(part / whole * 100) if whole > 0 else 0
Rate(part, whole) ==
    IF whole > 0 THEN RoundD(MulDI(DivII(part, whole), 100)) ELSE 0

\* the entry of hour h built from the calls d counted in it, lines 81-93
HourEntry(h, d) ==
    LET answered == WithStatus(d, "COMPLETAT")
        abandoned == WithStatus(d, "ABANDONAT")
        hold_sum == SumSeq(HoldTimes(answered))
    IN  [hour |-> h, label |-> Fmt2(h) \o <<":", "0", "0">>,
         total |-> Len(d), answered |-> Len(answered), abandoned |-> Len(abandoned),
         answer_rate |-> Rate(Len(answered), Len(d)),
         abandon_rate |-> Rate(Len(abandoned), Len(d)),
         asa |-> IF Len(answered) > 0 THEN RoundD(DivII(hold_sum, Len(answered))) ELSE 0]

\* every hour gets an entry, the empty ones too
Hourly_AllHours(call_list) ==
    LET At(h) == LET Test(c) == HourOf(c) = Some(h) IN SelectSeq(call_list, Test)
    IN  [i \in 1..24 |-> HourEntry(i - 1, At(i - 1))]

\* hourly_list: for h in range(24), the hours with at least one call
Hourly(call_list) ==
    LET At(h) == LET Test(c) == HourOf(c) = Some(h) IN SelectSeq(call_list, Test)
        all == [i \in 1..24 |-> HourEntry(i - 1, At(i - 1))]
        NonEmpty(e) == e.total > 0
    IN  SelectSeq(all, NonEmpty)

\* hourly[hour] on an hour that is no key of the dict
KeyError == [raised |-> "KeyError"]

Raised(r) == "raised" \in DOMAIN r

compute_stats(call_list) ==
    LET answered == WithStatus(call_list, "COMPLETAT")
        abandoned == WithStatus(call_list, "ABANDONAT")
        total == Len(call_list)
        hold_answered == Sorted(HoldTimes(answered))
        hold_abandoned == Sorted(HoldTimes(abandoned))
        call_times == Sorted(PositiveCallTimes(answered))
        Waited(c) == c.hold_time > 30
    IN  IF \E i \in DOMAIN call_list :
              /\ HourOf(call_list[i]) # None
              /\ HourOf(call_list[i])[1] \notin 0..23
        THEN KeyError
        ELSE [total |-> total,
              answered |-> Len(answered),
              abandoned |-> Len(abandoned),
              answer_rate |-> Rate(Len(answered), total),
              abandon_rate |-> Rate(Len(abandoned), total),
              asa |-> IF hold_answered # <<>> THEN RoundMean(hold_answered) ELSE 0,
              waited_over_30 |-> Len(SelectSeq(call_list, Waited)),
              hold_answered |-> time_stats(hold_answered),
              hold_abandoned |-> time_stats(hold_abandoned),
              call_duration |-> time_stats(call_times),
              hourly |-> Hourly(call_list)]

\* ------------------------------------------------------------------ the returned dict

\* summary[st] = summary.get(st, 0) + 1
Summary(call_list) ==
    [st \in {call_list[i].status : i \in DOMAIN call_list} |->
        Cardinality({i \in DOMAIN call_list : call_list[i].status = st})]

\* what parse_queue_log returns once the loop has ended with dict cs
Output(cs) ==
    LET call_list == SortByOraDesc(BuildList(Finalize(cs)))
    IN  [summary |-> Summary(call_list), calls |-> call_list, total |-> Len(call_list),
         stats |-> compute_stats(call_list)]

\* the empty result with the statistics left out
MissingOutput_NoStats == [summary |-> <<>>, calls |-> <<>>, total |-> 0, stats |-> <<>>]

\* what parse_queue_log returns when the file does not exist
MissingOutput ==
    [summary |-> <<>>, calls |-> <<>>, total |-> 0, stats |-> compute_stats(<<>>)]

RECURSIVE ParseLines(_, _)
ParseLines(cs, ls) ==
    IF ls = <<>> THEN cs ELSE ParseLines(ProcessLine(cs, Head(ls)), Tail(ls))

\* parse_queue_log on an existing file holding the lines ls
parse_queue_log(ls) == Output(ParseLines(<<>>, ls))

\* ------------------------------------------------------------------ the log lines

RECURSIVE Join(_)
\* the fields of a line, written with "|" between them
Join(fields) ==
    IF Len(fields) = 1 THEN fields[1]
    ELSE fields[1] \o <<"|">> \o Join(Tail(fields))

T0 == <<"0">>
T100 == <<"1", "0", "0">>
T150 == <<"1", "5", "0">>
T160 == <<"1", "6", "0">>
T170 == <<"1", "7", "0">>
T200 == <<"2", "0", "0">>
T300 == <<"3", "0", "0">>
T310 == <<"3", "1", "0">>
T79190 == <<"7", "9", "1", "9", "0">>
TBad == <<"1", "x">>
CallC1 == <<"C", "1">>
CallC2 == <<"C", "2">>
CallC3 == <<"C", "3">>
Q1 == <<"Q", "1">>
Sip201 == <<"S", "I", "P", "/", "2", "0", "1">>
Sip202 == <<"S", "I", "P", "/", "2", "0", "2">>
Caller1 == <<"0", "5", "5", "1", "2", "3", "4", "5", "6", "7">>
Caller2 == <<"0", "5", "5", "9">>
DID == <<"D", "I", "D">>
QUEUESTART == <<"Q", "U", "E", "U", "E", "S", "T", "A", "R", "T">>

\* the three lines of the worked example
LineEnter1 == Join(<<T100, CallC1, Q1, Sip201, ENTERQUEUE, <<"1">>, Caller1>>)
LineConnect1 == Join(<<T150, CallC1, Q1, Sip201, CONNECT, <<"5", "0">>>>)
LineComplete1 == Join(<<T300, CallC1, Q1, Sip201, COMPLETEAGENT, <<"5", "0">>, <<"1", "5", "0">>>>)
\* completion reported on another channel
LineComplete1b == Join(<<T310, CallC1, Q1, Sip202, COMPLETECALLER, <<"4", "0">>, <<"9", "0">>>>)
\* completion whose call time does not parse
LineCompleteBad1 == Join(<<T300, CallC1, Q1, Sip202, COMPLETECALLER, <<"6", "0">>, <<"1", "x">>>>)
LineAbandon1 == Join(<<T200, CallC1, Q1, NONE, ABANDON, <<"1">>, <<"1">>, <<"2", "0">>>>)
LineRing1 == Join(<<T160, CallC1, Q1, Sip201, RINGNOANSWER, <<"1", "0", "0", "0">>>>)
\* an event name the parser does not know
LineDid1 == Join(<<T170, CallC1, Q1, NONE, DID, <<"5">>>>)
\* a timestamp that is not an integer
LineBadTs1 == Join(<<TBad, CallC1, Q1, NONE, ENTERQUEUE, <<"1">>, Caller1>>)
LineEnter2 == Join(<<T79190, CallC2, Q1, NONE, ENTERQUEUE, <<"1">>, Caller2>>)
\* one data field only, and the same second as LineEnter1
LineEnter2Short == Join(<<T100, CallC2, Q1, NONE, ENTERQUEUE, <<"1">>>>)
\* epoch 0
LineEnter2Zero == Join(<<T0, CallC2, Q1, NONE, ENTERQUEUE, <<"1">>, Caller2>>)
LineAbandon2 == Join(<<T200, CallC2, Q1, NONE, ABANDON, <<"1">>, <<"1">>, <<"7">>>>)
\* a call that is never seen entering the queue
LineRing3 == Join(<<T160, CallC3, Q1, Sip202, RINGNOANSWER, <<"0">>>>)
LineQueueStart == Join(<<T100, NONE, NONE, NONE, QUEUESTART, <<>>>>)
LineReload == Join(<<T100, CallC1, Q1, NONE, CONFIGRELOAD, <<>>>>)
LineFourFields == Join(<<T100, CallC1, Q1, NONE>>)
LineBlank == <<" ", " ">>

LinePool ==
    {LineEnter1, LineConnect1, LineComplete1, LineComplete1b, LineCompleteBad1,
     LineAbandon1, LineRing1, LineDid1, LineBadTs1,
     LineEnter2, LineEnter2Short, LineEnter2Zero, LineAbandon2, LineRing3,
     LineQueueStart, LineReload, LineFourFields, LineBlank}

\* ------------------------------------------------------------------ the parser as a machine

NoResult == [summary |-> <<>>, calls |-> <<>>, total |-> 0, stats |-> <<>>]

\* no clock read yet
NoTime == <<>>

\* the functions of apeluri_trend.py that follow parse_master_csv are not running
TrendIdle ==
    /\ weekly_counts = <<>>
    /\ compensated = FALSE
    /\ trend = <<>>
    /\ trend_stats = <<>>
    /\ trend_lists = <<>>

\* no invocations side by side
ConcIdle == invocations = <<>>

\* empty tables, nothing saved
SaveIdle ==
    /\ apeluri_zilnic = {}
    /\ apeluri_detalii = {}
    /\ id_seq = <<>>
    /\ save_log = <<>>

ExIdle == exercitii = {} /\ ex_op = <<>>

\* what the specifications of single calls leave idle
OtherIdle == ConcIdle /\ SaveIdle /\ ExIdle

ExtIdle == TrendIdle /\ OtherIdle

Init ==
    /\ lines = <<>>
    /\ calls = <<>>
    /\ pc = "reading"
    /\ result = NoResult
    /\ trunc = FALSE
    /\ file_exists \in BOOLEAN
    /\ sorted_list = <<>>
    /\ p = 0
    /\ res = None
    /\ res_val = None
    /\ stat_list = <<>>
    /\ stats = None
    /\ csv_rows = <<>>
    /\ rows = <<>>
    /\ days = None
    /\ now = NoTime
    /\ ExtIdle

\* the loop reads the next line of the file
ReadLine ==
    /\ pc = "reading"
    /\ file_exists
    /\ ~trunc
    /\ Len(lines) < MaxLines
    /\ \E l \in LinePool :
        /\ lines' = Append(lines, l)
        /\ calls' = ProcessLine(calls, l)
    /\ UNCHANGED <<pc, result, trunc, file_exists, pctVars, statVars, extVars, csvVars>>

\* end of file: finalize, build the list, sort, summarize, return
Finish ==
    /\ pc = "reading"
    /\ file_exists
    /\ pc' = "done"
    /\ calls' = Finalize(calls)
    /\ result' = Output(calls)
    /\ UNCHANGED <<lines, trunc, file_exists, pctVars, statVars, extVars, csvVars>>

\* if not file_path.exists(): the empty result
ReturnMissing ==
    /\ pc = "reading"
    /\ ~file_exists
    /\ pc' = "done"
    /\ result' = MissingOutput
    /\ UNCHANGED <<lines, calls, trunc, file_exists, pctVars, statVars, extVars, csvVars>>

Next == ReadLine \/ Finish \/ ReturnMissing

Spec == Init /\ [][Next]_vars

\* ------------------------------------------------------------------ reading a log line

\* the fields of each line of the pool, split once
PoolFields == [l \in LinePool |-> Split(Strip(l))]

\* the fields of a raw line, as the loop sees them
Fields(raw) == IF raw \in LinePool THEN PoolFields[raw] ELSE Split(Strip(raw))

\* the line passes the blank, field-count, NONE and CONFIGRELOAD tests
Named(raw) ==
    /\ Strip(raw) # <<>>
    /\ Len(Fields(raw)) >= 5
    /\ Fields(raw)[2] # NONE
    /\ Fields(raw)[5] # CONFIGRELOAD

\* the line is not discarded: it also has an integer timestamp
Accepted(raw) == Named(raw) /\ IsInt(Fields(raw)[1])

CallIdOf(raw) == Fields(raw)[2]
ChannelOf(raw) == Fields(raw)[4]
EventOf(raw) == Fields(raw)[5]
DataOf(raw) == SubSeq(Fields(raw), 6, Len(Fields(raw)))

Recognized == {ENTERQUEUE, CONNECT, COMPLETEAGENT, COMPLETECALLER, ABANDON, RINGNOANSWER}
Terminal == {"COMPLETAT", "ABANDONAT"}

\* the accepted lines of ls that carry call id
AcceptedFor(ls, id) ==
    LET Test(l) == Accepted(l) /\ CallIdOf(l) = id IN SelectSeq(ls, Test)

\* the record of call id in a returned call list
OutputOf(call_list, id) ==
    call_list[CHOOSE i \in DOMAIN call_list : call_list[i].callid = id]

\* the step just taken read line l
Read(l) == pc = "reading" /\ pc' = "reading" /\ lines' = Append(lines, l)

\* ls without its i-th line
Without(ls, i) == SubSeq(ls, 1, i - 1) \o SubSeq(ls, i + 1, Len(ls))

\* ------------------------------------------------------------------ C1

RingNoAnswerStep ==
    \A l \in LinePool :
        (/\ Read(l)
         /\ Accepted(l)
         /\ EventOf(l) = RINGNOANSWER
         /\ HasCall(calls, CallIdOf(l))
         /\ calls[IndexOf(calls, CallIdOf(l))].status \in Terminal)
        => calls'[IndexOf(calls, CallIdOf(l))].status
               = calls[IndexOf(calls, CallIdOf(l))].status

\* the call ids a line of the pool can create a record for
PoolIds == {CallIdOf(l) : l \in {x \in LinePool : Named(x)}}

AbandonThenRing(ls0, call_list) ==
    \A id \in PoolIds :
        LET ls == AcceptedFor(ls0, id) IN
        (/\ Len(ls) = 3
         /\ EventOf(ls[1]) = ENTERQUEUE
         /\ EventOf(ls[2]) = ABANDON
         /\ EventOf(ls[3]) = RINGNOANSWER)
        => OutputOf(call_list, id).status = "ABANDONAT"

\* the step just taken is the return of parse_queue_log
Returns == pc = "reading" /\ pc' = "done"

(* C1: once a call's status is COMPLETAT or ABANDONAT, a RINGNOANSWER line  *)
(* for the same call id leaves the status as it was; and a call whose       *)
(* accepted lines are ENTERQUEUE, ABANDON, RINGNOANSWER is returned with    *)
(* status ABANDONAT.                                                        *)
C1_RingNoAnswerKeepsTerminal ==
    [][/\ RingNoAnswerStep
       /\ Returns => AbandonThenRing(lines, result'.calls)]_vars

C1_Witness ==
    /\ pc = "done"
    /\ lines = <<LineEnter1, LineAbandon1, LineRing1>>
    /\ result.calls[1].status = "ABANDONAT"
    /\ result.calls[1].hold_time = 20

\* ------------------------------------------------------------------ C2

(* C2: COMPLETAT and ABANDONAT are terminal: a record whose status is one   *)
(* of them keeps a status among them under every later step, so it is       *)
(* returned as COMPLETAT or ABANDONAT.                                      *)
C2_TerminalStaysTerminal ==
    [][\A i \in DOMAIN calls :
          calls[i].status \in Terminal => calls'[i].status \in Terminal]_vars

\* ------------------------------------------------------------------ C3

\* ls is ENTERQUEUE with a caller id, CONNECT on a SIP channel, COMPLETE* with integers
IsAnsweredFlow(ls) ==
    /\ Len(ls) = 3
    /\ EventOf(ls[1]) = ENTERQUEUE /\ Len(DataOf(ls[1])) >= 2
    /\ EventOf(ls[2]) = CONNECT
    /\ Len(ChannelOf(ls[2])) > 4 /\ SubSeq(ChannelOf(ls[2]), 1, 4) = SipPrefix
    /\ DataOf(ls[2]) # <<>> /\ IsInt(DataOf(ls[2])[1])
    /\ EventOf(ls[3]) \in {COMPLETEAGENT, COMPLETECALLER}
    /\ Len(DataOf(ls[3])) >= 2 /\ IsInt(DataOf(ls[3])[1]) /\ IsInt(DataOf(ls[3])[2])

AnsweredFlowFields(ls, out) ==
    /\ out.status = "COMPLETAT"
    /\ out.hold_time = IntVal(DataOf(ls[3])[1])
    /\ out.call_time = IntVal(DataOf(ls[3])[2])
    /\ out.caller_id = DataOf(ls[1])[2]

WorkedExample ==
    lines = <<LineEnter1, LineConnect1, LineComplete1>> =>
        /\ Len(result.calls) = 1
        /\ result.calls[1].status = "COMPLETAT"
        /\ result.calls[1].hold_time = 50
        /\ result.calls[1].call_time = 150
        /\ result.calls[1].agent = <<"2", "0", "1">>

(* C3 as claimed: after ENTERQUEUE, CONNECT on channel SIP/<a>, COMPLETE*   *)
(* (h2, t) the record is COMPLETAT, hold_time h2, call_time t, caller_id    *)
(* from ENTERQUEUE, and agent <a>, the channel of the CONNECT line.         *)
C3_AgentOfConnect ==
    pc = "done" =>
        /\ WorkedExample
        /\ \A id \in PoolIds :
              LET ls == AcceptedFor(lines, id) IN
              IsAnsweredFlow(ls) =>
                  /\ AnsweredFlowFields(ls, OutputOf(result.calls, id))
                  /\ SipPrefix \o OutputOf(result.calls, id).agent = ChannelOf(ls[2])

(* C3, amended: the same, with agent <b> where SIP/<b> is the channel of    *)
(* the COMPLETEAGENT / COMPLETECALLER line.                                 *)
C3_AgentOfComplete ==
    pc = "done" =>
        /\ WorkedExample
        /\ \A id \in PoolIds :
              LET ls == AcceptedFor(lines, id) IN
              IsAnsweredFlow(ls) =>
                  /\ AnsweredFlowFields(ls, OutputOf(result.calls, id))
                  /\ SipPrefix \o OutputOf(result.calls, id).agent = ChannelOf(ls[3])

C3_Witness ==
    /\ pc = "done"
    /\ lines = <<LineEnter1, LineConnect1, LineComplete1b>>
    /\ result.calls[1].agent = <<"2", "0", "2">>
    /\ result.calls[1].hold_time = 40
    /\ result.calls[1].call_time = 90

\* ------------------------------------------------------------------ C4

(* C4: a line with at least 5 fields whose timestamp is not an integer is   *)
(* discarded: the result equals the result of parsing without that line.    *)
C4_BadTimestampDiscarded ==
    pc = "done" =>
        \A i \in DOMAIN lines :
            (Len(Fields(lines[i])) >= 5 /\ ~IsInt(Fields(lines[i])[1]))
            => result = parse_queue_log(Without(lines, i))

\* ------------------------------------------------------------------ C5

\* the file is being appended to: its last line is read cut short
ReadTruncated ==
    /\ pc = "reading"
    /\ file_exists
    /\ ~trunc
    /\ Len(lines) < MaxLines
    /\ \E l \in LinePool : \E k \in 0..(Len(l) - 1) :
        /\ lines' = Append(lines, SubSeq(l, 1, k))
        /\ calls' = ProcessLine(calls, SubSeq(l, 1, k))
    /\ trunc' = TRUE
    /\ UNCHANGED <<pc, result, file_exists, pctVars, statVars, extVars, csvVars>>

NextTrunc == ReadLine \/ ReadTruncated \/ Finish \/ ReturnMissing

SpecTrunc == Init /\ [][NextTrunc]_vars

(* C5: a line cut mid-write (a proper prefix of a well-formed line) is      *)
(* dropped: the result equals the result of parsing without that line.      *)
C5_TruncatedLineDropped ==
    (pc = "done" /\ trunc) =>
        result = parse_queue_log(SubSeq(lines, 1, Len(lines) - 1))

\* ------------------------------------------------------------------ C6

FinalStatuses == {"COMPLETAT", "ABANDONAT", "NEPRELUATE", "IN_CURS"}

FinalStatus(cs, call_list) ==
    /\ Len(call_list) = Len(cs)
    /\ \A i \in DOMAIN call_list : call_list[i].status \in FinalStatuses
    /\ \A i \in DOMAIN cs :
          LET out == OutputOf(call_list, cs[i].callid) IN
          /\ cs[i].status \in {"IN_QUEUE", "CONNECTED", ""} => out.status = "IN_CURS"
          /\ cs[i].status \in {"COMPLETAT", "ABANDONAT", "NEPRELUATE"}
                 => out.status = cs[i].status

(* C6: every returned record has a status among COMPLETAT, ABANDONAT,       *)
(* NEPRELUATE, IN_CURS: IN_QUEUE, CONNECTED and unset are returned as       *)
(* IN_CURS, the other three unchanged.                                      *)
C6_FinalStatus == [][Returns => FinalStatus(calls, result'.calls)]_vars

C6_Witness ==
    /\ pc = "done"
    /\ lines = <<LineEnter2, LineRing3, LineDid1>>
    /\ OutputOf(result.calls, CallC2).status = "IN_CURS"
    /\ OutputOf(result.calls, CallC3).status = "NEPRELUATE"
    /\ OutputOf(result.calls, CallC1).status = "IN_CURS"

\* ------------------------------------------------------------------ C7

\* line l, read with dict cs, gave dict cs2
AppendStep(l, cs, cs2) ==
    Accepted(l) =>
        LET id == CallIdOf(l)
            existed == HasCall(cs, id)
        IN  /\ HasCall(cs2, id)
            /\ Len(cs2) = IF existed THEN Len(cs) ELSE Len(cs) + 1
            /\ \A j \in DOMAIN cs : cs[j].callid # id => cs2[j] = cs[j]
            /\ LET new == cs2[IndexOf(cs2, id)]
                   oldEvents == IF existed THEN cs[IndexOf(cs, id)].events ELSE <<>>
               IN  /\ new.events = Append(oldEvents, EventOf(l))
                   /\ (EventOf(l) \notin Recognized /\ existed)
                          => new = [cs[IndexOf(cs, id)] EXCEPT !.events = new.events]
                   /\ (EventOf(l) \notin Recognized /\ ~existed)
                          => /\ new.status = ""
                             /\ new.enter_time = None /\ new.connect_time = None
                             /\ new.end_time = None
                             /\ new.hold_time = 0 /\ new.call_time = 0
                             /\ new.agent = <<>> /\ new.caller_id = <<>>

\* the events of every record are the event names of its accepted lines, in order
EventsInOrder(ls, cs) ==
    \A i \in DOMAIN cs :
        LET acc == AcceptedFor(ls, cs[i].callid) IN
        cs[i].events = [k \in DOMAIN acc |-> EventOf(acc[k])]

(* C7: every accepted line appends its event name to its call's events, in  *)
(* input order, also an unrecognized name and a RINGNOANSWER that changes   *)
(* nothing; an unrecognized name changes no other field and no other record.*)
C7_EventsRecorded ==
    [][/\ \A l \in LinePool : Read(l) => AppendStep(l, calls, calls')
       /\ EventsInOrder(lines', calls')]_vars

C7_Witness ==
    /\ pc = "reading"
    /\ lines = <<LineAbandon1, LineRing1, LineDid1>>
    /\ calls[1].events = <<ABANDON, RINGNOANSWER, DID>>
    /\ calls[1].status = "ABANDONAT"

\* ------------------------------------------------------------------ C8

RECURSIVE SumOf(_, _)
SumOf(f, S) ==
    IF S = {} THEN 0 ELSE LET x == CHOOSE y \in S : TRUE IN f[x] + SumOf(f, S \ {x})

(* C8: the output has exactly one record per call id of a non-discarded     *)
(* line, total is their number, and summary counts them per final status.   *)
C8_OneRecordPerAcceptedId ==
    pc = "done" =>
        LET ids == {CallIdOf(lines[i]) : i \in {j \in DOMAIN lines : Accepted(lines[j])}}
            cl == result.calls
        IN  /\ {cl[i].callid : i \in DOMAIN cl} = ids
            /\ Len(cl) = Cardinality(ids)
            /\ result.total = Len(cl)
            /\ \A st \in DOMAIN result.summary :
                  result.summary[st] = Cardinality({i \in DOMAIN cl : cl[i].status = st})
            /\ SumOf(result.summary, DOMAIN result.summary) = result.total

\* ------------------------------------------------------------------ C9

\* the line that created the record of call id
FirstSeen(ls, id) ==
    CHOOSE i \in DOMAIN ls :
        /\ Named(ls[i]) /\ CallIdOf(ls[i]) = id
        /\ \A j \in 1..(i - 1) : ~(Named(ls[j]) /\ CallIdOf(ls[j]) = id)

(* C9: the returned list is in descending lexical order of the display time,*)
(* records with an empty display time last, equal display times in the      *)
(* order in which their call ids first appeared.                            *)
C9_SortedByOraDesc ==
    pc = "done" =>
        LET cl == result.calls IN
        /\ {cl[k].callid : k \in DOMAIN cl} = {calls[i].callid : i \in DOMAIN calls}
        /\ \A k \in 1..(Len(cl) - 1) :
              /\ ~StrLess(cl[k].ora, cl[k + 1].ora)
              /\ cl[k].ora = <<>> => cl[k + 1].ora = <<>>
              /\ cl[k].ora = cl[k + 1].ora
                     => FirstSeen(lines, cl[k].callid) < FirstSeen(lines, cl[k + 1].callid)

C9_Witness ==
    /\ pc = "done"
    /\ lines = <<LineRing3, LineEnter1, LineEnter2>>
    /\ result.calls[1].callid = CallC2 /\ result.calls[1].ora = StrfTime(79190)
    /\ result.calls[2].callid = CallC1
    /\ result.calls[3].callid = CallC3 /\ result.calls[3].ora = <<>>

\* ------------------------------------------------------------------ the percentile inputs

\* every whole percentile
Percentiles == 0..100

Values == {v * ValStep : v \in (0 - MaxVal)..MaxVal}

\* the pre-sorted lists
SortedLists ==
    UNION {{s \in [1..n -> Values] : \A i \in 1..(n - 1) : s[i] <= s[i + 1]} : n \in 0..MaxLen}

InitPct ==
    /\ lines = <<>>
    /\ calls = <<>>
    /\ pc = "idle"
    /\ result = NoResult
    /\ trunc = FALSE
    /\ file_exists = TRUE
    /\ sorted_list \in SortedLists
    /\ p \in Percentiles
    /\ res = None
    /\ res_val = None
    /\ stat_list = <<>>
    /\ stats = None
    /\ csv_rows = <<>>
    /\ rows = <<>>
    /\ days = None
    /\ now = NoTime
    /\ ExtIdle

CallPercentile ==
    /\ pc = "idle"
    /\ res = None
    /\ res' = Some(percentile(sorted_list, p))
    /\ UNCHANGED <<parserVars, sorted_list, p, res_val, statVars, extVars, csvVars>>

CallPercentileVal ==
    /\ pc = "idle"
    /\ res_val = None
    /\ res_val' = Some(percentile_val(sorted_list, p))
    /\ UNCHANGED <<parserVars, sorted_list, p, res, statVars, extVars, csvVars>>

NextPct == CallPercentile \/ CallPercentileVal

SpecPct == InitPct /\ [][NextPct]_vars

\* ------------------------------------------------------------------ C10

EndsOfList(r) ==
    /\ sorted_list = <<>> => r = 0
    /\ (sorted_list # <<>> /\ p = 0) => r = MinOf(sorted_list)
    /\ (sorted_list # <<>> /\ p = 100) => r = MaxOf(sorted_list)

(* C10: percentile and percentile_val return the minimum of a non-empty     *)
(* sorted list for p = 0, its maximum for p = 100, and 0 for the empty list.*)
C10_PercentileEnds ==
    /\ res # None => EndsOfList(res[1])
    /\ res_val # None => EndsOfList(res_val[1])

C10_Witness ==
    /\ Len(sorted_list) = 3 /\ sorted_list[1] < sorted_list[3]
    /\ p = 100
    /\ res = Some(sorted_list[3])
    /\ res_val = Some(sorted_list[3])

\* ------------------------------------------------------------------ C11

\* floor(values[f] + (k - f) * (values[c] - values[f])) over the rationals,
\* with k = (n - 1) * p / 100, f = floor(k), c = min(f + 1, n - 1)
FloorInterpolation(sl, pct) ==
    LET k100 == (Len(sl) - 1) * pct
        f == k100 \div 100
        c == Min2(f + 1, Len(sl) - 1)
    IN  (100 * sl[f + 1] + (k100 - 100 * f) * (sl[c + 1] - sl[f + 1])) \div 100

(* C11: for every non-empty sorted list of integers, negative values       *)
(* included, and every p in 0..100, percentile returns the floor of the    *)
(* linear interpolation at k = (n-1)*p/100 between values[f] and values[c].*)
C11_FloorInterpolation ==
    (res # None /\ sorted_list # <<>>) => res[1] = FloorInterpolation(sorted_list, p)

\* ------------------------------------------------------------------ C12

(* C12: percentile and percentile_val return the same value for every      *)
(* sorted list of integers and every p in 0..100.                          *)
C12_PercentilesAgree ==
    (res # None /\ res_val # None) => res = res_val

\* the boundary the two functions treat differently: f + 1 is past the end
C12_Witness ==
    /\ Len(sorted_list) = 2 /\ sorted_list[1] < sorted_list[2]
    /\ p = 100
    /\ res # None /\ res_val = res

\* ------------------------------------------------------------------ the compute_stats inputs

\* calls in a list of arbitrary records
MaxCalls == 3
\* calls in a list of answered and abandoned calls of one hour
MaxBlock == 40

StatA1 == [status |-> "COMPLETAT", hold_time |-> 10, call_time |-> 60, ora |-> Ora0915]
StatA2 == [status |-> "COMPLETAT", hold_time |-> 45, call_time |-> 0, ora |-> Ora1000]
StatA3 == [status |-> "COMPLETAT", hold_time |-> 5, call_time |-> 30, ora |-> <<>>]
StatB1 == [status |-> "ABANDONAT", hold_time |-> 40, call_time |-> 0, ora |-> Ora0930]
StatB2 == [status |-> "ABANDONAT", hold_time |-> 3, call_time |-> 0, ora |-> Ora2359]
StatN1 == [status |-> "NEPRELUATE", hold_time |-> 0, call_time |-> 0, ora |-> Ora0005]
StatU1 == [status |-> "IN_CURS", hold_time |-> 0, call_time |-> 0, ora |-> OraNoHour]
StatO1 == [status |-> "COMPLETAT", hold_time |-> 20, call_time |-> 15, ora |-> Ora2400]

CallPool == {StatA1, StatA2, StatA3, StatB1, StatB2, StatN1, StatU1, StatO1}

Repeat(c, n) == [i \in 1..n |-> c]

\* every list of up to MaxCalls records of the pool
ShortLists == UNION {[1..n -> CallPool] : n \in 0..MaxCalls}

\* a answered and t - a abandoned calls of the 09 hour, in both orders
BlockLists ==
    UNION {{Repeat(StatA1, a) \o Repeat(StatB1, t - a) : a \in 0..t}
           \cup {Repeat(StatB1, t - a) \o Repeat(StatA1, a) : a \in 0..t} :
           t \in (MaxCalls + 1)..MaxBlock}

InitStats ==
    /\ lines = <<>>
    /\ calls = <<>>
    /\ pc = "idle"
    /\ result = NoResult
    /\ trunc = FALSE
    /\ file_exists = TRUE
    /\ sorted_list = <<>>
    /\ p = 0
    /\ res = None
    /\ res_val = None
    /\ stat_list \in ShortLists \cup BlockLists
    /\ stats = None
    /\ csv_rows = <<>>
    /\ rows = <<>>
    /\ days = None
    /\ now = NoTime
    /\ ExtIdle

CallComputeStats ==
    /\ pc = "idle"
    /\ stats = None
    /\ stats' = Some(compute_stats(stat_list))
    /\ UNCHANGED <<parserVars, pctVars, stat_list, extVars, csvVars>>

NextStats == CallComputeStats

SpecStats == InitStats /\ [][NextStats]_vars

\* ------------------------------------------------------------------ C13

AllZeroTimes == [avg |-> 0, median |-> 0, p90 |-> 0, min |-> 0, max |-> 0]

AllZeroStats ==
    [total |-> 0, answered |-> 0, abandoned |-> 0, answer_rate |-> 0, abandon_rate |-> 0,
     asa |-> 0, waited_over_30 |-> 0, hold_answered |-> AllZeroTimes,
     hold_abandoned |-> AllZeroTimes, call_duration |-> AllZeroTimes, hourly |-> <<>>]

(* C13: compute_stats on the empty list returns 0 in every count, rate and  *)
(* time statistic and an empty hourly list; parse_queue_log on a missing    *)
(* file returns an empty call list, total 0, an empty summary and exactly   *)
(* these zeroed statistics.                                                 *)
C13_EmptyIsZero ==
    [][/\ compute_stats(<<>>) = AllZeroStats
       /\ (pc = "reading" /\ ~file_exists) =>
             /\ pc' = "done"
             /\ result' = [summary |-> <<>>, calls |-> <<>>, total |-> 0,
                           stats |-> AllZeroStats]]_vars

C13_Witness ==
    /\ ~file_exists
    /\ pc = "done"
    /\ result.calls = <<>> /\ result.total = 0
    /\ result.stats.hourly = <<>> /\ result.stats.hold_answered.p90 = 0

\* ------------------------------------------------------------------ C14

\* the ratios of r whose denominator is 0 are reported as 0
ZeroDenominators(call_list, r) ==
    /\ call_list = <<>> => r.answer_rate = 0 /\ r.abandon_rate = 0
    /\ r.answered = 0 => r.asa = 0 /\ r.hold_answered = AllZeroTimes
    /\ r.abandoned = 0 => r.hold_abandoned = AllZeroTimes
    /\ \A i \in DOMAIN r.hourly : r.hourly[i].answered = 0 => r.hourly[i].asa = 0

(* C14: compute_stats returns a result and never raises, whatever the       *)
(* display time strings are (empty, non-numeric hour, hour outside 0..23),  *)
(* and every ratio with a zero denominator is reported as 0.                *)
C14_ComputeStatsTotal ==
    stats # None =>
        /\ ~Raised(stats[1])
        /\ ZeroDenominators(stat_list, stats[1])

\* ------------------------------------------------------------------ C15

\* the calls whose display time has a parseable hour
Parseable(call_list) == {i \in DOMAIN call_list : HourOf(call_list[i]) # None}

CountStatus(call_list, st) == Cardinality({i \in DOMAIN call_list : call_list[i].status = st})

HourlyBreakdown(call_list, r) ==
    LET hl == r.hourly
        parsed == Parseable(call_list)
    IN
    /\ {hl[i].hour : i \in DOMAIN hl}
           = {h \in 0..23 : \E i \in parsed : HourOf(call_list[i]) = Some(h)}
    /\ \A i \in 1..(Len(hl) - 1) : hl[i].hour < hl[i + 1].hour
    /\ \A i \in DOMAIN hl :
          /\ hl[i].total = Cardinality({j \in parsed :
                                           HourOf(call_list[j]) = Some(hl[i].hour)})
          /\ hl[i].answered + hl[i].abandoned <= hl[i].total
    /\ SumSeq([i \in DOMAIN hl |-> hl[i].total]) = Cardinality(parsed)
    /\ r.total = Len(call_list)
    /\ r.answered = CountStatus(call_list, "COMPLETAT")
    /\ r.abandoned = CountStatus(call_list, "ABANDONAT")

(* C15: the hourly breakdown has one entry for exactly the hours 0..23 that *)
(* hold a call with a parseable display hour, in ascending hour order; the  *)
(* hourly totals sum to the number of such calls; calls with an empty or    *)
(* unparseable time are in no entry but count in total, answered and        *)
(* abandoned; in every entry answered + abandoned <= total.                 *)
C15_HourlyBreakdown ==
    (stats # None /\ ~Raised(stats[1])) => HourlyBreakdown(stat_list, stats[1])

C15_Witness ==
    /\ stat_list = <<StatB2, StatU1, StatA1>>
    /\ stats # None
    /\ Len(stats[1].hourly) = 2
    /\ stats[1].hourly[1].hour = 9 /\ stats[1].hourly[2].hour = 23
    /\ stats[1].total = 3

\* ------------------------------------------------------------------ C16

\* 100 * part / whole rounded to the nearest integer, a tie to the even one
HalfEvenPercent(part, whole) ==
    IF whole = 0 THEN 0
    ELSE LET q == (100 * part) \div whole
             r2 == 2 * ((100 * part) % whole)
         IN  IF r2 < whole THEN q
             ELSE IF r2 > whole THEN q + 1
             ELSE q + (q % 2)

RatesOf(e) ==
    /\ e.answer_rate = HalfEvenPercent(e.answered, e.total)
    /\ e.abandon_rate = HalfEvenPercent(e.abandoned, e.total)
    /\ e.answer_rate \in 0..100 /\ e.abandon_rate \in 0..100
    /\ e.answered + e.abandoned <= e.total

(* C16: answer_rate and abandon_rate, overall and in every hourly entry,    *)
(* equal answered/total*100 and abandoned/total*100 rounded half-to-even,   *)
(* 0 when total is 0; each lies in 0..100 and answered + abandoned <= total.*)
C16_RatesHalfEven ==
    (stats # None /\ ~Raised(stats[1])) =>
        /\ RatesOf(stats[1])
        /\ \A i \in DOMAIN stats[1].hourly : RatesOf(stats[1].hourly[i])

\* ------------------------------------------------------------------ datetime

\* the digits s starts with
RECURSIVE DigitRun(_)
DigitRun(s) ==
    IF s # <<>> /\ IsDigit(Head(s)) THEN <<Head(s)>> \o DigitRun(Tail(s)) ELSE <<>>

\* the values a directive of the format accepts
DirectiveRange(d) ==
    IF d = "m" THEN 1..12
    ELSE IF d = "d" THEN 1..31
    ELSE IF d = "H" THEN 0..23
    ELSE IF d = "M" THEN 0..59
    ELSE 0..61

RECURSIVE Scan(_, _, _)
\* the numbers of s read under the directives fmt, <<>> when s does not match:
\* %Y is four digits, the others one or two, a day may be a space and a digit,
\* a space of the format is any run of whitespace, nothing may remain
Scan(s, fmt, acc) ==
    IF fmt = <<>> THEN IF s = <<>> THEN Some(acc) ELSE None
    ELSE LET d == Head(fmt)
             run == DigitRun(s)
             rest == SubSeq(s, Len(run) + 1, Len(s))
         IN  IF d = " "
             THEN IF s # <<>> /\ IsSpace(Head(s)) THEN Scan(LStrip(s), Tail(fmt), acc)
                  ELSE None
             ELSE IF d \in {"-", ":"}
             THEN IF s # <<>> /\ Head(s) = d THEN Scan(Tail(s), Tail(fmt), acc) ELSE None
             ELSE IF d = "Y"
             THEN IF Len(run) = 4 THEN Scan(rest, Tail(fmt), Append(acc, DigitsVal(run)))
                  ELSE None
             ELSE IF Len(run) \in 1..2 /\ DigitsVal(run) \in DirectiveRange(d)
             THEN Scan(rest, Tail(fmt), Append(acc, DigitsVal(run)))
             ELSE IF d = "d" /\ Len(s) >= 2 /\ s[1] = " " /\ IsDigit(s[2]) /\ s[2] # "0"
             THEN Scan(SubSeq(s, 3, Len(s)), Tail(fmt), Append(acc, DigitVal(s[2])))
             ELSE None

\* "%Y-%m-%d %H:%M:%S"
StartFormat == <<"Y", "-", "m", "-", "d", " ", "H", ":", "M", ":", "S">>

IsLeap(y) == y % 4 = 0 /\ (y % 100 # 0 \/ y % 400 = 0)

DaysInMonth(y, m) ==
    IF m = 2 THEN IF IsLeap(y) THEN 29 ELSE 28
    ELSE IF m \in {4, 6, 9, 11} THEN 30 ELSE 31

\* datetime.strptime(s, "%Y-%m-%d %H:%M:%S"): <<>> when it raises ValueError
StrpTime(s) ==
    LET n == Scan(s, StartFormat, <<>>) IN
    IF n = None THEN None
    ELSE LET v == n[1] IN
         IF v[1] >= 1 /\ v[3] <= DaysInMonth(v[1], v[2]) /\ v[6] <= 59
         THEN Some([year |-> v[1], month |-> v[2], day |-> v[3],
                    hour |-> v[4], minute |-> v[5], second |-> v[6], microsecond |-> 0])
         ELSE None

DaysBeforeYear(y) == (y - 1) * 365 + (y - 1) \div 4 - (y - 1) \div 100 + (y - 1) \div 400

RECURSIVE DaysBeforeMonth(_, _)
DaysBeforeMonth(y, m) ==
    IF m = 1 THEN 0 ELSE DaysBeforeMonth(y, m - 1) + DaysInMonth(y, m - 1)

\* date.toordinal()
ToOrdinal(dt) == DaysBeforeYear(dt.year) + DaysBeforeMonth(dt.year, dt.month) + dt.day

SecondOfDay(dt) == dt.hour * 3600 + dt.minute * 60 + dt.second

\* a < b on two datetimes
Before(a, b) ==
    \/ ToOrdinal(a) < ToOrdinal(b)
    \/ /\ ToOrdinal(a) = ToOrdinal(b)
       /\ \/ SecondOfDay(a) < SecondOfDay(b)
          \/ SecondOfDay(a) = SecondOfDay(b) /\ a.microsecond < b.microsecond

\* a < b - timedelta(days=n)
BeforeDaysAgo(a, b, n) ==
    \/ ToOrdinal(a) < ToOrdinal(b) - n
    \/ /\ ToOrdinal(a) = ToOrdinal(b) - n
       /\ \/ SecondOfDay(a) < SecondOfDay(b)
          \/ SecondOfDay(a) = SecondOfDay(b) /\ a.microsecond < b.microsecond

\* the ordinal of the Monday of ISO week 1 of year y
IsoWeek1Monday(y) ==
    LET firstday == DaysBeforeYear(y) + 1
        firstweekday == (firstday + 6) % 7
    IN  IF firstweekday > 3 THEN firstday - firstweekday + 7 ELSE firstday - firstweekday

\* start_dt.isocalendar()[0] and [1]
IsoCalendar(dt) ==
    LET today == ToOrdinal(dt)
        week == (today - IsoWeek1Monday(dt.year)) \div 7
    IN  IF week < 0
        THEN [year |-> dt.year - 1,
              week |-> ((today - IsoWeek1Monday(dt.year - 1)) \div 7) + 1]
        ELSE IF week >= 52 /\ today >= IsoWeek1Monday(dt.year + 1)
        THEN [year |-> dt.year + 1, week |-> 1]
        ELSE [year |-> dt.year, week |-> week + 1]

RECURSIVE Str(_)
\* str(n) for n >= 0
Str(n) == IF n < 10 THEN <<Digits[n + 1]>> ELSE Str(n \div 10) \o <<Digits[(n % 10) + 1]>>

\* "%04d"
Fmt4(n) == Fmt2(n \div 100) \o Fmt2(n % 100)

\* start_dt.date().isoformat()
IsoFormat(dt) == Fmt4(dt.year) \o <<"-">> \o Fmt2(dt.month) \o <<"-">> \o Fmt2(dt.day)

\* f"{iso_year}-W{iso_week:02d}"
YearWeek(dt) == Str(IsoCalendar(dt).year) \o <<"-", "W">> \o Fmt2(IsoCalendar(dt).week)

\* ------------------------------------------------------------------ parse_master_csv

COL_SRC == 1
COL_LASTAPP == 7
COL_LASTDATA == 8
COL_START == 9
COL_DURATION == 12
COL_BILLSEC == 13
COL_DISPOSITION == 14

\* row[i] of a Python list
Col(row, i) == row[i + 1]

QueueApp == <<"Q", "u", "e", "u", "e">>
ComenziPrefix == <<"c", "o", "m", "e", "n", "z", "i">>
ANSWERED == <<"A", "N", "S", "W", "E", "R", "E", "D">>

\* s.startswith(prefix)
StartsWith(s, prefix) == Len(s) >= Len(prefix) /\ SubSeq(s, 1, Len(prefix)) = prefix

Max2(a, b) == IF a >= b THEN a ELSE b

\* the application column is not looked at
IsQueueRow_AnyApp(row) ==
    /\ Len(row) >= 16
    /\ StartsWith(Col(row, COL_LASTDATA), ComenziPrefix)

\* the row passes the column-count, application and queue tests
IsQueueRow(row) ==
    /\ Len(row) >= 16
    /\ Col(row, COL_LASTAPP) = QueueApp
    /\ StartsWith(Col(row, COL_LASTDATA), ComenziPrefix)

\* cutoff and start_dt < cutoff, with cutoff set only when days is truthy
TooOld(start_dt, d, clock) ==
    d # None /\ d[1] # 0 /\ BeforeDaysAgo(start_dt, clock, d[1])

\* a row whose duration or billsec int() rejects is skipped
Emitted_NeedsDurations(row, d, clock) ==
    /\ IsQueueRow(row)
    /\ StrpTime(Col(row, COL_START)) # None
    /\ ~TooOld(StrpTime(Col(row, COL_START))[1], d, clock)
    /\ Len(Strip(Col(row, COL_SRC))) >= 4
    /\ IsInt(Col(row, COL_DURATION)) /\ IsInt(Col(row, COL_BILLSEC))

\* the row reaches rows.append
Emitted(row, d, clock) ==
    /\ IsQueueRow(row)
    /\ StrpTime(Col(row, COL_START)) # None
    /\ ~TooOld(StrpTime(Col(row, COL_START))[1], d, clock)
    /\ Len(Strip(Col(row, COL_SRC))) >= 4

\* duration and billsec: both 0 when either int() raises ValueError
Durations(row) ==
    IF IsInt(Col(row, COL_DURATION)) /\ IsInt(Col(row, COL_BILLSEC))
    THEN [duration |-> IntVal(Col(row, COL_DURATION)), billsec |-> IntVal(Col(row, COL_BILLSEC))]
    ELSE [duration |-> 0, billsec |-> 0]

\* the difference, negative when billsec exceeds duration
WaitTime_Signed(duration, billsec) == duration - billsec

\* wait_time = max(duration - billsec, 0)
WaitTime(duration, billsec) == Max2(duration - billsec, 0)

\* the dict appended for a row that passed the filters
RowDict(row) ==
    LET start_dt == StrpTime(Col(row, COL_START))[1]
        dur == Durations(row)
        disposition == Strip(Col(row, COL_DISPOSITION))
    IN  [src |-> Strip(Col(row, COL_SRC)),
         start |-> start_dt,
         date |-> IsoFormat(start_dt),
         hour |-> start_dt.hour,
         week |-> IsoCalendar(start_dt).week,
         year_week |-> YearWeek(start_dt),
         duration |-> dur.duration,
         billsec |-> dur.billsec,
         wait_time |-> WaitTime(dur.duration, dur.billsec),
         disposition |-> disposition,
         answered |-> disposition = ANSWERED]

\* one turn of the for loop
ProcessRow(out, row, d, clock) ==
    IF Emitted(row, d, clock) THEN Append(out, RowDict(row)) ELSE out

RECURSIVE ProcessRows(_, _, _, _)
ProcessRows(out, rs, d, clock) ==
    IF rs = <<>> THEN out ELSE ProcessRows(ProcessRow(out, Head(rs), d, clock), Tail(rs), d, clock)

\* parse_master_csv on an existing file holding the rows rs
parse_master_csv(rs, d, clock) == ProcessRows(<<>>, rs, d, clock)

\* ------------------------------------------------------------------ the CSV rows

\* rows per file
MaxRows == 2

Src10 == <<"0", "7", "2", "2", "1", "2", "3", "4", "5", "6">>
Src4 == <<"0", "7", "2", "2">>
SrcPadded == <<" ", "0", "7", "2", "2", "1", " ">>
SrcExtension == <<"2", "0", "1">>
SrcBlank == <<" ", " ", " ", " ">>
TransferApp == <<"T", "r", "a", "n", "s", "f", "e", "r">>
LowerQueueApp == <<"q", "u", "e", "u", "e">>
ComenziPrincipal == <<"c", "o", "m", "e", "n", "z", "i", "_", "p", "r", "i", "n", "c", "i", "p", "a", "l">>
SuportQueue == <<"s", "u", "p", "o", "r", "t">>
StartNow == <<"2", "0", "2", "6", "-", "0", "3", "-", "1", "0", " ", "1", "2", ":", "0", "0", ":", "0", "0">>
StartDayAgo == <<"2", "0", "2", "6", "-", "0", "3", "-", "0", "9", " ", "1", "2", ":", "0", "0", ":", "0", "0">>
StartOverDayAgo == <<"2", "0", "2", "6", "-", "0", "3", "-", "0", "9", " ", "1", "1", ":", "5", "9", ":", "5", "9">>
StartOld == <<"2", "0", "2", "6", "-", "0", "3", "-", "0", "1", " ", "0", "9", ":", "0", "0", ":", "0", "0">>
StartNoSuchDay == <<"2", "0", "2", "6", "-", "0", "2", "-", "3", "0", " ", "1", "0", ":", "0", "0", ":", "0", "0">>
StartUnpadded == <<"2", "0", "2", "6", "-", "3", "-", "9", " ", "8", ":", "0", "5", ":", "0", "0">>
N30 == <<"3", "0">>
N20 == <<"2", "0">>
N10 == <<"1", "0">>
N25 == <<"2", "5">>
NotNumber == <<"a", "b", "c">>
AnsweredPadded == <<" ", "A", "N", "S", "W", "E", "R", "E", "D", " ">>
NoAnswer == <<"N", "O", " ", "A", "N", "S", "W", "E", "R">>

\* a Master.csv row of 18 columns
CsvRow(src, lastapp, lastdata, start, duration, billsec, disposition) ==
    <<<<>>, src, <<>>, <<>>, <<>>, <<>>, <<>>, lastapp, lastdata, start, <<>>, <<>>,
      duration, billsec, disposition, <<>>, <<>>, <<>>>>

RowOk == CsvRow(Src10, QueueApp, ComenziPrincipal, StartNow, N30, N20, ANSWERED)
RowNoAnswer == CsvRow(SrcPadded, QueueApp, ComenziPrefix, StartDayAgo, N20, T0, NoAnswer)
RowTransfer == CsvRow(Src10, TransferApp, ComenziPrincipal, StartNow, N30, N20, ANSWERED)
RowLowerQueue == CsvRow(Src10, LowerQueueApp, ComenziPrincipal, StartNow, N30, N20, ANSWERED)
RowOtherQueue == CsvRow(Src10, QueueApp, SuportQueue, StartNow, N30, N20, ANSWERED)
RowBadStart == CsvRow(Src10, QueueApp, ComenziPrincipal, StartNoSuchDay, N30, N20, ANSWERED)
RowOld == CsvRow(Src4, QueueApp, ComenziPrincipal, StartOld, N30, N10, ANSWERED)
RowOverDayAgo == CsvRow(Src10, QueueApp, ComenziPrincipal, StartOverDayAgo, N30, N20, NoAnswer)
RowUnpadded == CsvRow(Src10, QueueApp, ComenziPrincipal, StartUnpadded, N30, N20, ANSWERED)
RowExtension == CsvRow(SrcExtension, QueueApp, ComenziPrincipal, StartNow, N30, N20, ANSWERED)
RowBlankSrc == CsvRow(SrcBlank, QueueApp, ComenziPrincipal, StartNow, N30, N20, ANSWERED)
RowBadDuration == CsvRow(Src10, QueueApp, ComenziPrincipal, StartNow, NotNumber, N20, ANSWERED)
RowBadBillsec == CsvRow(Src10, QueueApp, ComenziPrincipal, StartNow, N30, <<>>, NoAnswer)
RowBillsecOver == CsvRow(Src10, QueueApp, ComenziPrincipal, StartNow, N10, N25, AnsweredPadded)
\* the same row cut to 15 and to 16 columns
RowFifteen == SubSeq(RowOk, 1, 15)
RowSixteen == SubSeq(RowOk, 1, 16)

RowPool ==
    {RowOk, RowNoAnswer, RowTransfer, RowLowerQueue, RowOtherQueue, RowBadStart, RowOld,
     RowOverDayAgo, RowUnpadded, RowExtension, RowBlankSrc, RowBadDuration, RowBadBillsec,
     RowBillsecOver, RowFifteen, RowSixteen}

\* days: not given, 0, 1 and 7
DaysPool == {None, Some(0), Some(1), Some(7)}

\* datetime.now(): 2026-03-10 12:00:00, on the second or a quarter second after it
NowAt(us) ==
    [year |-> 2026, month |-> 3, day |-> 10, hour |-> 12, minute |-> 0, second |-> 0,
     microsecond |-> us]
NowPool == {NowAt(0), NowAt(250000)}

InitCsv ==
    /\ lines = <<>>
    /\ calls = <<>>
    /\ pc = "csv_reading"
    /\ result = NoResult
    /\ trunc = FALSE
    /\ file_exists \in BOOLEAN
    /\ sorted_list = <<>>
    /\ p = 0
    /\ res = None
    /\ res_val = None
    /\ stat_list = <<>>
    /\ stats = None
    /\ csv_rows = <<>>
    /\ rows = <<>>
    /\ days \in DaysPool
    /\ now \in NowPool
    /\ ExtIdle

\* the for loop reads the next row of the file
ReadRow ==
    /\ pc = "csv_reading"
    /\ file_exists
    /\ Len(csv_rows) < MaxRows
    /\ \E r \in RowPool :
        /\ csv_rows' = Append(csv_rows, r)
        /\ rows' = ProcessRow(rows, r, days, now)
    /\ UNCHANGED <<parserVars, pctVars, statVars, extVars, days, now>>

\* end of file: return rows
ReturnRows ==
    /\ pc = "csv_reading"
    /\ file_exists
    /\ pc' = "csv_done"
    /\ UNCHANGED <<lines, calls, result, trunc, file_exists, pctVars, statVars, extVars, csvVars>>

\* if not file_path.exists(): return []
ReturnNoFile ==
    /\ pc = "csv_reading"
    /\ ~file_exists
    /\ pc' = "csv_done"
    /\ rows' = <<>>
    /\ UNCHANGED <<lines, calls, result, trunc, file_exists, pctVars, statVars, extVars,
                   csv_rows, days, now>>

NextCsv == ReadRow \/ ReturnRows \/ ReturnNoFile

SpecCsv == InitCsv /\ [][NextCsv]_vars

\* ------------------------------------------------------------------ reading a CSV row

\* the step just taken read row r
ReadsRow(r) == pc = "csv_reading" /\ pc' = "csv_reading" /\ csv_rows' = Append(csv_rows, r)

\* the step appended exactly one row to the emitted ones
EmitsOne(before, after) ==
    Len(after) = Len(before) + 1 /\ SubSeq(after, 1, Len(before)) = before

\* the row appended by the step
NewRow(after) == after[Len(after)]

\* the start column parses as YYYY-MM-DD HH:MM:SS
StartOf(r) == StrpTime(r[COL_START + 1])

\* the tests a row has to pass apart from its age
PassesContent(r) ==
    /\ Len(r) >= 16
    /\ r[COL_LASTAPP + 1] = QueueApp
    /\ StartsWith(r[COL_LASTDATA + 1], ComenziPrefix)
    /\ StartOf(r) # None
    /\ Len(Strip(r[COL_SRC + 1])) >= 4

\* r starts before clock - n days
Precedes(r, clock, n) == BeforeDaysAgo(StartOf(r)[1], clock, n)

\* ------------------------------------------------------------------ C17

\* a cutoff applies when days is given and is not 0 (for 0 see C19)
CutoffApplies == days # None /\ days[1] # 0

EmitsIff(r) ==
    LET passes == PassesContent(r) /\ ~(CutoffApplies /\ Precedes(r, now, days[1]))
    IN  /\ passes => EmitsOne(rows, rows') /\ NewRow(rows').src = Strip(r[COL_SRC + 1])
        /\ ~passes => rows' = rows
        /\ (Len(r) >= 16 /\ r[COL_LASTAPP + 1] = TransferApp) => rows' = rows

(* C17: parse_master_csv emits a row iff it has at least 16 columns, its    *)
(* last application is Queue, its last data starts with comenzi, its start  *)
(* parses, it is not older than the cutoff when one applies and its         *)
(* stripped source has at least 4 characters; a Transfer row is never       *)
(* emitted; emitted rows keep input order.                                  *)
C17_EmitsIff ==
    [][\A r \in RowPool : ReadsRow(r) => EmitsIff(r)]_vars

C17_Witness ==
    /\ pc = "csv_done"
    /\ csv_rows = <<RowNoAnswer, RowTransfer>>
    /\ days = Some(1)
    /\ Len(rows) = 1 /\ rows[1].src = Strip(SrcPadded)

\* ------------------------------------------------------------------ C18

WaitAndAnswered(r) ==
    rows' # rows =>
        LET new == NewRow(rows') IN
        /\ new.wait_time = Max2(new.duration - new.billsec, 0)
        /\ new.wait_time >= 0
        /\ new.answered <=> Strip(r[COL_DISPOSITION + 1]) = ANSWERED

(* C18: every emitted row has wait_time = max(duration - billsec, 0), so    *)
(* wait_time >= 0 also when billsec exceeds duration, and answered is true  *)
(* exactly when the stripped disposition equals ANSWERED.                   *)
C18_WaitTimeAndAnswered ==
    [][\A r \in RowPool : ReadsRow(r) => WaitAndAnswered(r)]_vars

C18_Witness ==
    /\ csv_rows = <<RowBillsecOver, RowNoAnswer>>
    /\ Len(rows) = 2
    /\ rows[1].billsec > rows[1].duration /\ rows[1].wait_time = 0 /\ rows[1].answered
    /\ rows[2].wait_time = 20 /\ ~rows[2].answered

\* ------------------------------------------------------------------ C19

CutoffWheneverGiven(r) ==
    /\ (days # None /\ StartOf(r) # None /\ Precedes(r, now, days[1])) => rows' = rows
    /\ \A i \in DOMAIN rows' :
          days # None => ~BeforeDaysAgo(rows'[i].start, now, days[1])
    /\ (days = None /\ PassesContent(r)) => EmitsOne(rows, rows')

(* C19: whenever days is given as an integer, 0 included, every row whose   *)
(* start precedes now - days is skipped and no emitted row starts before    *)
(* that cutoff; when days is not given no row is skipped for its age.       *)
C19_CutoffWheneverGiven ==
    [][\A r \in RowPool : ReadsRow(r) => CutoffWheneverGiven(r)]_vars

\* ------------------------------------------------------------------ C20

UnparsedIsZero(r) ==
    LET passes == PassesContent(r) /\ ~(CutoffApplies /\ Precedes(r, now, days[1]))
        bad_duration == ~IsInt(r[COL_DURATION + 1])
        bad_billsec == ~IsInt(r[COL_BILLSEC + 1])
    IN  (passes /\ (bad_duration \/ bad_billsec)) =>
            /\ EmitsOne(rows, rows')
            /\ bad_duration => NewRow(rows').duration = 0
            /\ bad_billsec => NewRow(rows').billsec = 0

(* C20: a row that passes all filters but whose duration or billsec does    *)
(* not parse as an integer is still emitted, the unparseable value being    *)
(* reported as 0.                                                           *)
C20_UnparsedIsZero ==
    [][\A r \in RowPool : ReadsRow(r) => UnparsedIsZero(r)]_vars

C20_Witness ==
    /\ csv_rows = <<RowBadBillsec, RowBadDuration>>
    /\ Len(rows) = 2
    /\ rows[1].billsec = 0 /\ rows[2].duration = 0

\* ------------------------------------------------------------------ linear_trend

AbsD(x) == IF x.m = <<>> THEN x ELSE [x EXCEPT !.sg = 1]

\* sum() over floats adds the terms left to right, starting from the int 0.  The
\* terms lo..hi are added to the running sum in that order: first those of the lower
\* half of the range and, once their sum is settled, those of the upper half.
RECURSIVE SumPlain(_, _, _, _)
SumPlainUpper(acc, terms, lo, hi) == IF acc.sg = 0 THEN acc ELSE SumPlain(acc, terms, lo, hi)

\* CPython before 3.12: each addition rounds
SumPlain(acc, terms, lo, hi) ==
    IF lo > hi THEN acc
    ELSE IF lo = hi THEN AddDD(acc, terms[lo])
    ELSE SumPlainUpper(SumPlain(acc, terms, lo, (lo + hi) \div 2), terms,
                       ((lo + hi) \div 2) + 1, hi)

\* the correction gathered when x is added to the running sum f, giving t
Lost(f, x, t) ==
    IF GreaterD(AbsD(x), AbsD(f)) THEN AddDD(AddDD(x, NegD(t)), f)
    ELSE AddDD(AddDD(f, NegD(t)), x)

\* one term x added to the running sum st.f, the corrections gathered in st.c
Compensate(st, x, t) == [f |-> t, c |-> AddDD(st.c, Lost(st.f, x, t))]

RECURSIVE SumCompensated(_, _, _, _)
SumCompensatedUpper(st, terms, lo, hi) ==
    IF st.f.sg = 0 THEN st ELSE SumCompensated(st, terms, lo, hi)

\* CPython 3.12 and later: the rounding errors are gathered beside the running sum
SumCompensated(st, terms, lo, hi) ==
    IF lo > hi THEN st
    ELSE IF lo = hi THEN Compensate(st, terms[lo], AddDD(st.f, terms[lo]))
    ELSE SumCompensatedUpper(SumCompensated(st, terms, lo, (lo + hi) \div 2), terms,
                             ((lo + hi) \div 2) + 1, hi)

\* and added to it at the end
Corrected(st) == IF st.c.m # <<>> THEN AddDD(st.f, st.c) ELSE st.f

\* sum(terms) as the interpreter at hand computes it
SumFloats(terms, comp) ==
    IF comp THEN Corrected(SumCompensated([f |-> DZero, c |-> DZero], terms, 1, Len(terms)))
    ELSE SumPlain(DZero, terms, 1, Len(terms))

\* xi - x_mean and yi - y_mean for the pairs of zip(x, values)
Deviations(values, x_mean, y_mean) ==
    [i \in DOMAIN values |->
        [dx |-> AddID(i - 1, NegD(x_mean)), dy |-> AddID(values[i], NegD(y_mean))]]

\* the literal 0.08
TrendThreshold == DivII(8, 100)

\* the comparison of rel with the two thresholds
Direction(rel) ==
    IF GreaterD(rel, TrendThreshold) THEN "crestere"
    ELSE IF GreaterD(NegD(TrendThreshold), rel) THEN "scadere"
    ELSE "stabil"

\* from num and den to the answer
SlopeDirection(num, den, y_mean) ==
    IF den.m = <<>> THEN "stabil"
    ELSE IF y_mean.m = <<>> THEN "stabil"
    ELSE Direction(DivDD(DivDD(num, den), y_mean))

TrendFrom(devs, y_mean, comp) ==
    SlopeDirection(SumFloats([i \in DOMAIN devs |-> MulDD(devs[i].dx, devs[i].dy)], comp),
                   SumFloats([i \in DOMAIN devs |-> MulDD(devs[i].dx, devs[i].dx)], comp),
                   y_mean)

\* sum(range(n))
SumRange(n) == (n * (n - 1)) \div 2

\* linear_trend(values) under an interpreter whose sum() compensates (comp) or not
linear_trend(values, comp) ==
    IF Len(values) < 3 THEN "stabil"
    ELSE TrendFrom(Deviations(values, DivII(SumRange(Len(values)), Len(values)),
                              DivII(SumSeq(values), Len(values))),
                   DivII(SumSeq(values), Len(values)), comp)

\* ------------------------------------------------------------------ the linear_trend inputs

\* longest weekly count vector drawn exhaustively
MaxWeeks == 4
\* highest weekly count in those vectors
MaxCount == 2

ReverseSeq(s) == [i \in DOMAIN s |-> s[Len(s) + 1 - i]]

GrowingCounts == <<1, 1, 1, 1, 8, 9>>
FlatCounts == <<3, 3, 3, 3, 3, 3>>
\* vectors whose least-squares slope over mean is 0.08 to the digit
EdgeCounts7 == <<7, 2, 2, 0, 1, 5, 8>>
EdgeCounts11 == <<3, 0, 1, 0, 1, 1, 2, 1, 1, 1, 4>>

CountVectors ==
    UNION {[1..n -> 0..MaxCount] : n \in 0..MaxWeeks}
    \cup {GrowingCounts, ReverseSeq(GrowingCounts), FlatCounts,
          EdgeCounts7, ReverseSeq(EdgeCounts7), EdgeCounts11, ReverseSeq(EdgeCounts11)}

InitLinear ==
    /\ lines = <<>>
    /\ calls = <<>>
    /\ pc = "idle"
    /\ result = NoResult
    /\ trunc = FALSE
    /\ file_exists = TRUE
    /\ sorted_list = <<>>
    /\ p = 0
    /\ res = None
    /\ res_val = None
    /\ stat_list = <<>>
    /\ stats = None
    /\ csv_rows = <<>>
    /\ rows = <<>>
    /\ days = None
    /\ now = NoTime
    /\ weekly_counts \in CountVectors
    /\ compensated \in BOOLEAN
    /\ trend = None
    /\ trend_stats = None
    /\ trend_lists = None
    /\ OtherIdle

CallLinearTrend ==
    /\ pc = "idle"
    /\ trend = None
    /\ trend' = Some(linear_trend(weekly_counts, compensated))
    /\ UNCHANGED <<parserVars, pctVars, statVars, csvVars, weekly_counts, compensated,
                   trend_stats, trend_lists, invocations, saveVars, exVars>>

NextLinear == CallLinearTrend

SpecLinear == InitLinear /\ [][NextLinear]_vars

\* ------------------------------------------------------------------ C21

\* sum of x * y over the pairs of week index x (from 0) and count y
RECURSIVE SumXY(_, _)
SumXY(values, i) ==
    IF i > Len(values) THEN 0 ELSE (i - 1) * values[i] + SumXY(values, i + 1)

\* the least-squares slope over the mean is
\* 6 * (2 * SumXY - (n - 1) * S) / ((n * n - 1) * S) for n counts of sum S > 0 ;
\* it is compared with 8 / 100 in whole numbers
SlopeSide(n, sxy, s) ==
    IF 75 * (2 * sxy - (n - 1) * s) > (n * n - 1) * s THEN "crestere"
    ELSE IF 75 * (2 * sxy - (n - 1) * s) < 0 - (n * n - 1) * s THEN "scadere"
    ELSE "stabil"

OlsDirection(values) ==
    IF Len(values) < 3 \/ SumSeq(values) = 0 THEN "stabil"
    ELSE SlopeSide(Len(values), SumXY(values, 1), SumSeq(values))

Swapped(t) == IF t = "crestere" THEN "scadere" ELSE IF t = "scadere" THEN "crestere" ELSE t

\* C21: linear_trend answers by the least-squares slope over the mean: stabil under 3
\* entries or with mean 0, crestere above 0.08, scadere below -0.08, stabil otherwise,
\* and the reversed vector gets the swapped answer.
C21_TrendByRelativeSlope ==
    trend # None =>
        /\ trend[1] = OlsDirection(weekly_counts)
        /\ linear_trend(ReverseSeq(weekly_counts), compensated) = Swapped(trend[1])

\* the three vectors named with the rule are answered as the rule names them
C21_NamedVectors ==
    (trend # None /\ weekly_counts = GrowingCounts => trend[1] = "crestere")
    /\ (trend # None /\ weekly_counts = ReverseSeq(GrowingCounts) => trend[1] = "scadere")
    /\ (trend # None /\ weekly_counts = FlatCounts => trend[1] = "stabil")

\* ------------------------------------------------------------------ compute_trend_stats

\* the ints of the set S in ascending order
Ascending(S) ==
    [k \in 1..Cardinality(S) |-> CHOOSE i \in S : Cardinality({j \in S : j < i}) = k - 1]

\* the keys of S by their rank, the number of smaller keys
KeysPlaced(S, rank) == [k \in 1..Cardinality(S) |-> CHOOSE w \in S : rank[w] = k - 1]

\* sorted(S) on a set of dates or of year_week keys: all of one layout, so that
\* only digits are ever compared with digits
SortedKeys(S) == KeysPlaced(S, [w \in S |-> Cardinality({v \in S : StrLess(v, w)})])

\* min() and max() on dates
MinKey(S) == CHOOSE w \in S : \A v \in S : ~StrLess(v, w)
MaxKey(S) == CHOOSE w \in S : \A v \in S : ~StrLess(w, v)

\* the place each entry takes in a stable ascending sort by keys
AscRank(keys) ==
    [i \in DOMAIN keys |->
        1 + Cardinality({j \in DOMAIN keys :
                            keys[j] < keys[i] \/ (keys[j] = keys[i] /\ j < i)})]

\* the place each entry takes in list.sort(key, reverse=True): greatest key first,
\* equal keys in their order of the list
DescRank(keys) ==
    [i \in DOMAIN keys |->
        1 + Cardinality({j \in DOMAIN keys :
                            keys[j] > keys[i] \/ (keys[j] = keys[i] /\ j < i)})]

\* the entries moved to their places
Placed(list, rank) == [k \in DOMAIN list |-> list[CHOOSE i \in DOMAIN list : rank[i] = k]]

\* sorted(values) on ints
SortedInts(values) == Placed(values, AscRank(values))

\* list[:n]
FirstN(list, n) == SubSeq(list, 1, Min2(n, Len(list)))

\* list[-n:]
LastN(list, n) == SubSeq(list, Max2(Len(list) - n, 0) + 1, Len(list))

WaitTimes(rs) == [i \in DOMAIN rs |-> rs[i].wait_time]
Billsecs(rs) == [i \in DOMAIN rs |-> rs[i].billsec]
DatesOf(rs) == {rs[i].date : i \in DOMAIN rs}
WeeksOf(rs) == {rs[i].year_week : i \in DOMAIN rs}

\* [r for r in rows if r["answered"]]
AnsweredRows(rs) == LET Test(r) == r.answered IN SelectSeq(rs, Test)

\* [r["billsec"] for r in answered if r["billsec"] > 0]
PositiveBillsecs(rs) == LET Test(b) == b > 0 IN SelectSeq(Billsecs(AnsweredRows(rs)), Test)

ZeroTrendTimeStats ==
    [avg |-> 0, median |-> 0, p50 |-> 0, p75 |-> 0, p90 |-> 0, min |-> 0, max |-> 0]

\* the inner time_stats of compute_trend_stats, on sorted vals
trend_time_stats(vals) ==
    IF vals = <<>> THEN ZeroTrendTimeStats
    ELSE [avg |-> RoundMean(vals), median |-> RoundMedian(vals),
          p50 |-> percentile_val(vals, 50), p75 |-> percentile_val(vals, 75),
          p90 |-> percentile_val(vals, 90), min |-> vals[1], max |-> vals[Len(vals)]]

\* the rows of one source, in their order
FromSrc(rs, src) == LET Test(r) == r.src = src IN SelectSeq(rs, Test)

\* the rows that bring a source not seen before
FirstRows(rs) == {i \in DOMAIN rs : \A j \in 1..(i - 1) : rs[j].src # rs[i].src}

BySrcAt(rs, first) ==
    [k \in DOMAIN first |-> [src |-> rs[first[k]].src, calls |-> FromSrc(rs, rs[first[k]].src)]]

\* by_src.items(): a dict keeps its keys in the order they were first set
BySrc(rs) == BySrcAt(rs, Ascending(FirstRows(rs)))

CallCounts(by_src) == [k \in DOMAIN by_src |-> Len(by_src[k].calls)]

\* sorted(by_src.items(), key=lambda x: len(x[1]), reverse=True)
ByVolume(by_src) == Placed(by_src, DescRank(CallCounts(by_src)))

\* round(sum(c["wait_time"] for c in calls) / len(calls))
AvgWait(cs) == RoundD(DivII(SumSeq(WaitTimes(cs)), Len(cs)))

Top20Entry(e) ==
    [src |-> e.src, count |-> Len(e.calls),
     total_duration |-> SumSeq(Billsecs(e.calls)),
     avg_duration |-> RoundD(DivII(SumSeq(Billsecs(e.calls)), Len(e.calls))),
     avg_wait |-> AvgWait(e.calls),
     first_call |-> MinKey(DatesOf(e.calls)),
     last_call |-> MaxKey(DatesOf(e.calls))]

Top20(top) == [k \in DOMAIN top |-> Top20Entry(top[k])]

\* sum(1 for calls in by_src.values() if lo <= len(calls) <= hi)
SourcesWith(by_src, lo, hi) ==
    Cardinality({k \in DOMAIN by_src : lo <= Len(by_src[k].calls) /\ Len(by_src[k].calls) <= hi})

FrequencyBuckets(by_src, most) ==
    [single |-> SourcesWith(by_src, 1, 1), from_2_to_5 |-> SourcesWith(by_src, 2, 5),
     from_6_to_10 |-> SourcesWith(by_src, 6, 10), over_10 |-> SourcesWith(by_src, 11, most)]

AtHour(rs, h) == LET Test(r) == r.hour = h IN SelectSeq(rs, Test)

TrendHourEntry(h, d) ==
    [hour |-> h, label |-> Fmt2(h) \o <<":", "0", "0">>, total |-> Len(d),
     answered |-> Len(AnsweredRows(d)), answer_rate |-> Rate(Len(AnsweredRows(d)), Len(d))]

\* hourly_list: for h in range(24), the hours with at least one row
TrendHourly(rs) ==
    LET NonEmpty(e) == e.total > 0
    IN  SelectSeq([i \in 1..24 |-> TrendHourEntry(i - 1, AtHour(rs, i - 1))], NonEmpty)

InWeek(rs, w) == LET Test(r) == r.year_week = w IN SelectSeq(rs, Test)

WeekEntry(w, d) ==
    [week |-> w, total |-> Len(d), answered |-> Len(AnsweredRows(d)),
     answer_rate |-> Rate(Len(AnsweredRows(d)), Len(d)),
     avg_wait |-> AvgWait(d)]

\* weekly_list: one entry per year_week, in sorted order
WeeklyList(rs, all_weeks) ==
    [k \in DOMAIN all_weeks |-> WeekEntry(all_weeks[k], InWeek(rs, all_weeks[k]))]

WaitEntry(w, week_waits) ==
    [week |-> w, avg |-> RoundMean(week_waits), median |-> RoundMedian(week_waits),
     p90 |-> percentile_val(week_waits, 90)]

\* wait_evolution: every week of by_week holds at least one row
WaitEvolution(rs, all_weeks) ==
    [k \in DOMAIN all_weeks |->
        WaitEntry(all_weeks[k], SortedInts(WaitTimes(InWeek(rs, all_weeks[k]))))]

\* set(all_weeks[-4:]) if len(all_weeks) >= 4 else set(all_weeks)
RecentWeeks(all_weeks) ==
    IF Len(all_weeks) >= 4 THEN {all_weeks[k] : k \in (Len(all_weeks) - 3)..Len(all_weeks)}
    ELSE {all_weeks[k] : k \in DOMAIN all_weeks}

\* the old weeks taken as the weeks before the recent ones
OldWeeks_BeforeRecent(all_weeks) ==
    {all_weeks[k] : k \in 1..Max2(Len(all_weeks) - 4, 1)}

\* set(all_weeks[:max(len(all_weeks) // 2, 1)])
OldWeeks(all_weeks) == {all_weeks[k] : k \in 1..Min2(Max2(Len(all_weeks) \div 2, 1), Len(all_weeks))}

\* sum(src_weekly.get(w, 0) for w in weeks)
CallsIn(cs, weeks) == Cardinality({i \in DOMAIN cs : cs[i].year_week \in weeks})

\* [src_weekly.get(w, 0) for w in all_weeks]
WeeklyCounts(cs, all_weeks) == [k \in DOMAIN all_weeks |-> CallsIn(cs, {all_weeks[k]})]

\* info, with the two counts the churn test looks at
TrendInfo(e, all_weeks, comp) ==
    [src |-> e.src, total_calls |-> Len(e.calls),
     trend |-> linear_trend(WeeklyCounts(e.calls, all_weeks), comp),
     avg_wait |-> AvgWait(e.calls),
     first_call |-> MinKey(DatesOf(e.calls)),
     last_call |-> MaxKey(DatesOf(e.calls)),
     old_calls |-> CallsIn(e.calls, OldWeeks(all_weeks)),
     recent_calls |-> CallsIn(e.calls, RecentWeeks(all_weeks))]

\* a source counted whatever its number of calls
Classified_Any(by_src) == by_src

\* if len(calls) < 5: continue
Classified(by_src) == LET Test(e) == Len(e.calls) >= 5 IN SelectSeq(by_src, Test)

\* the sources the loop of lines 231-265 does not skip, in the order of by_src
TrendInfos(frequent, all_weeks, comp) ==
    [k \in DOMAIN frequent |-> TrendInfo(frequent[k], all_weeks, comp)]

\* info: the entry of trends_crestere, trends_scadere and trends_stabil
Info(t) ==
    [src |-> t.src, total_calls |-> t.total_calls, trend |-> t.trend, avg_wait |-> t.avg_wait,
     first_call |-> t.first_call, last_call |-> t.last_call]

WithTrend(infos, trend_name) == LET Test(t) == t.trend = trend_name IN SelectSeq(infos, Test)

TotalCalls(infos) == [k \in DOMAIN infos |-> infos[k].total_calls]
OldCalls(infos) == [k \in DOMAIN infos |-> infos[k].old_calls]

\* trends_crestere and trends_scadere after their sort
TrendList(infos, trend_name) ==
    LET listed == WithTrend(infos, trend_name)
        ordered == Placed(listed, DescRank(TotalCalls(listed)))
    IN  [k \in DOMAIN ordered |-> Info(ordered[k])]

\* the churn test without the lower bound on the old calls
Churned_NoOldBound(infos) == LET Test(t) == t.recent_calls = 0 IN SelectSeq(infos, Test)

\* if old_count >= 3 and recent_count == 0
Churned(infos) ==
    LET Test(t) == t.old_calls >= 3 /\ t.recent_calls = 0 IN SelectSeq(infos, Test)

\* trends_churn after its sort: info_churn carries old_calls and recent_calls
ChurnList(churned) == Placed(churned, DescRank(OldCalls(churned)))

\* all of trends_crestere, without the cut to 15
Cut_None(list, n) == list

\* list[:n] at the return
Cut(list, n) == FirstN(list, n)

\* trends_stabil: the infos in the order of by_src
StabilList(infos) == [k \in DOMAIN infos |-> Info(infos[k])]

\* the four lists when the loop over by_src has ended and three of them are sorted
TrendLists(infos) ==
    [crestere |-> TrendList(infos, "crestere"),
     scadere |-> TrendList(infos, "scadere"),
     stabil |-> StabilList(WithTrend(infos, "stabil")),
     churn |-> ChurnList(Churned(infos))]

\* the trends entry of the returned dict
Trends(lists) ==
    [crestere |-> Cut(lists.crestere, 15),
     scadere |-> Cut(lists.scadere, 15),
     stabil_count |-> Len(lists.stabil),
     churn |-> Cut(lists.churn, 15)]

TopCallerEntry(e, general_avg_wait) ==
    [src |-> e.src, count |-> Len(e.calls), avg_wait |-> AvgWait(e.calls),
     diff_vs_general |-> AvgWait(e.calls) - general_avg_wait]

TopCallersWait(top, general_avg_wait) ==
    [k \in DOMAIN top |-> TopCallerEntry(top[k], general_avg_wait)]

NoData == [error |-> "Nu exista date"]

\* the returned dict, from the rows, by_src, all_weeks and the four trend lists
TrendReport(rs, by_src, all_weeks, lists) ==
    [period |-> [from |-> MinKey(DatesOf(rs)), to |-> MaxKey(DatesOf(rs)),
                 total_days |-> Cardinality(DatesOf(rs))],
     basic |-> [total |-> Len(rs), answered |-> Len(AnsweredRows(rs)),
                not_answered |-> Len(rs) - Len(AnsweredRows(rs)),
                answer_rate |-> Rate(Len(AnsweredRows(rs)), Len(rs)),
                unique_numbers |-> Len(by_src)],
     wait_time |-> trend_time_stats(SortedInts(WaitTimes(rs))),
     wait_time_answered |-> trend_time_stats(SortedInts(WaitTimes(AnsweredRows(rs)))),
     call_duration |-> trend_time_stats(SortedInts(PositiveBillsecs(rs))),
     frequency_buckets |-> FrequencyBuckets(by_src, Len(rs)),
     top20 |-> Top20(FirstN(ByVolume(by_src), 20)),
     hourly |-> TrendHourly(rs),
     weekly |-> LastN(WeeklyList(rs, all_weeks), 52),
     wait_evolution |-> LastN(WaitEvolution(rs, all_weeks), 52),
     trends |-> Trends(lists),
     top_callers_wait |-> TopCallersWait(FirstN(ByVolume(by_src), 10), RoundMean(WaitTimes(rs))),
     general_avg_wait |-> RoundMean(WaitTimes(rs))]

\* the four lists of compute_trend_stats on rows rs that are not empty
TrendListsOf(rs, comp) ==
    TrendLists(TrendInfos(Classified(BySrc(rs)), SortedKeys(WeeksOf(rs)), comp))

\* compute_trend_stats(rows) under an interpreter whose sum() compensates (comp) or not
compute_trend_stats(rs, comp) ==
    IF rs = <<>> THEN NoData
    ELSE TrendReport(rs, BySrc(rs), SortedKeys(WeeksOf(rs)), TrendListsOf(rs, comp))

\* ------------------------------------------------------------------ the compute_trend_stats inputs

\* weeks observed in the plans drawn exhaustively
MaxTrendWeeks == 9
\* calls of the first source in the first week and in the week after the first
\* half of the weeks
MaxOldCalls == 4
MaxMidCalls == 3
\* weeks and sources of the long reports
ManyWeeks == 53
ManySources == 16

\* the day the k-th observed week is represented by: the 1st, 8th, 15th and 22nd of
\* each month from January 2024 on, each in an ISO week of its own
WeekDay(k) ==
    [year |-> 2024 + ((k - 1) \div 48), month |-> (((k - 1) % 48) \div 4) + 1,
     day |-> 1 + 7 * ((k - 1) % 4)]

\* the start column of a row: the day and the hour h
StartAt(day, h) == IsoFormat(day) \o <<" ">> \o Fmt2(h) \o <<":", "0", "0", ":", "0", "0">>

N45 == <<"4", "5">>
N40 == <<"4", "0">>

\* four kinds of call: answered after 10 s, not answered after 20 s, answered after
\* 5 s, and answered with a billsec above the duration
KindRow(day, v) ==
    IF v = 0 THEN CsvRow(Src10, QueueApp, ComenziPrincipal, StartAt(day, 9), N30, N20, ANSWERED)
    ELSE IF v = 1 THEN CsvRow(Src10, QueueApp, ComenziPrefix, StartAt(day, 10), N20, T0, NoAnswer)
    ELSE IF v = 2 THEN CsvRow(Src10, QueueApp, ComenziPrincipal, StartAt(day, 9), N45, N40, ANSWERED)
    ELSE CsvRow(Src10, QueueApp, ComenziPrincipal, StartAt(day, 14), N10, N25, AnsweredPadded)

\* what parse_master_csv emits for the rows of week k, worked out once
WeekRows == [k \in 1..(ManyWeeks + 1), v \in 0..3 |-> RowDict(KindRow(WeekDay(k), v))]

\* the number of the s-th source
SrcName(s) == <<"0", "7", "0", "0">> \o Fmt2(s)

\* the j-th call of source s in week k
TrendRow(s, k, j) == [WeekRows[k, (s + k + j) % 4] EXCEPT !.src = SrcName(s)]

RECURSIVE Concat(_, _, _)
\* lists[lo] \o ... \o lists[hi]
Concat(lists, lo, hi) ==
    IF lo > hi THEN <<>>
    ELSE IF lo = hi THEN lists[lo]
    ELSE Concat(lists, lo, (lo + hi) \div 2) \o Concat(lists, ((lo + hi) \div 2) + 1, hi)

\* the calls of source s in week k
CellRows(plan, s, k) == [j \in 1..plan[s][k] |-> TrendRow(s, k, j)]

\* a plan gives, for each source, its number of calls in each week; the file holds
\* the calls week after week, and within a week source after source
PlanRows(plan, weeks) ==
    Concat([c \in 1..(weeks * Len(plan)) |->
               CellRows(plan, ((c - 1) % Len(plan)) + 1, ((c - 1) \div Len(plan)) + 1)],
           1, weeks * Len(plan))

\* a calls in the first week, b in week w \div 2 + 1, c in the last one
ThreeWeeks(w, a, b, c) ==
    [k \in 1..w |-> (IF k = 1 THEN a ELSE 0) + (IF k = (w \div 2) + 1 THEN b ELSE 0)
                    + (IF k = w THEN c ELSE 0)]

\* one call in every week
EveryWeek(w) == [k \in 1..w |-> 1]

\* n calls in week at, none in the others
OneWeek(w, at, n) == [k \in 1..w |-> IF k = at THEN n ELSE 0]

\* two sources: one that calls every week and one that called in the first
\* week, after the first half of the weeks, and once in the last week or not
SmallPlans ==
    {<<ThreeWeeks(w, a, b, c), EveryWeek(w)>> :
        w \in 1..MaxTrendWeeks, a \in 0..MaxOldCalls, b \in 0..MaxMidCalls, c \in {0, 1}}

\* over many weeks: sources that called in the first week only, 5 to 7 times, one that
\* called 4 times in the first week and once after the first half of the weeks, and one
\* that calls every week
PlanManyChurned ==
    [s \in 1..(ManySources + 1) |->
        IF s < ManySources THEN OneWeek(ManyWeeks, 1, 5 + (s % 3))
        ELSE IF s = ManySources THEN ThreeWeeks(ManyWeeks, 4, 1, 0)
        ELSE EveryWeek(ManyWeeks)]

\* many sources that called in the last of three weeks only
PlanManyGrowing ==
    [s \in 1..(ManySources + 1) |->
        IF s <= ManySources THEN OneWeek(3, 3, 5 + (s % 3)) ELSE EveryWeek(3)]

\* many sources that called twice in each of three weeks
PlanManyStable == [s \in 1..ManySources |-> [k \in 1..3 |-> 2]]

TrendInputs ==
    {PlanRows(pl, Len(pl[1])) : pl \in SmallPlans \cup {PlanManyChurned, PlanManyGrowing, PlanManyStable}}
    \cup {<<>>}

InitTrend ==
    /\ lines = <<>>
    /\ calls = <<>>
    /\ pc = "idle"
    /\ result = NoResult
    /\ trunc = FALSE
    /\ file_exists = TRUE
    /\ sorted_list = <<>>
    /\ p = 0
    /\ res = None
    /\ res_val = None
    /\ stat_list = <<>>
    /\ stats = None
    /\ csv_rows = <<>>
    /\ rows \in TrendInputs
    /\ days = None
    /\ now = NoTime
    /\ weekly_counts = <<>>
    /\ compensated \in BOOLEAN
    /\ trend = None
    /\ trend_stats = None
    /\ trend_lists = None
    /\ OtherIdle

CallComputeTrendStats ==
    /\ pc = "idle"
    /\ trend_stats = None
    /\ trend_lists' = IF rows = <<>> THEN None ELSE Some(TrendListsOf(rows, compensated))
    /\ trend_stats' =
           Some(IF rows = <<>> THEN NoData
                ELSE TrendReport(rows, BySrc(rows), SortedKeys(WeeksOf(rows)), trend_lists'[1]))
    /\ UNCHANGED <<parserVars, pctVars, statVars, csvVars, weekly_counts, compensated, trend,
                   invocations, saveVars, exVars>>

NextTrend == CallComputeTrendStats

SpecTrend == InitTrend /\ [][NextTrend]_vars

\* ------------------------------------------------------------------ the report read back

\* the report of a call on rows that are not empty
Reported == trend_stats # <<>> /\ rows # <<>>

SourcesSeen == {rows[i].src : i \in DOMAIN rows}

\* the calls of source src among the rows
CallsFrom(src) == Cardinality({i \in DOMAIN rows : rows[i].src = src})

\* for each row, the place of its year_week among the observed ones, from 1
RowWeek ==
    [i \in DOMAIN rows |->
        1 + Cardinality({v \in WeeksOf(rows) : StrLess(v, rows[i].year_week)})]

NumWeeks == Cardinality(WeeksOf(rows))

\* the calls of src in the weeks lo..hi, rw being RowWeek
CallsBetween(src, rw, lo, hi) ==
    Cardinality({i \in DOMAIN rows : rows[i].src = src /\ lo <= rw[i] /\ rw[i] <= hi})

OldCount(src, rw) == CallsBetween(src, rw, 1, Max2(NumWeeks \div 2, 1))

RecentCount(src, rw) == CallsBetween(src, rw, NumWeeks - 3, NumWeeks)

CountVector(src, rw) == [k \in 1..NumWeeks |-> CallsBetween(src, rw, k, k)]

Srcs(list) == {list[i].src : i \in DOMAIN list}

\* ------------------------------------------------------------------ C22

InChurn(tr, src) == src \in Srcs(tr.churn)

\* the churn list holds 15 sources, each with at least n old calls
ChurnFull(tr, n) ==
    Len(tr.churn) = 15 /\ \A i \in DOMAIN tr.churn : tr.churn[i].old_calls >= n

ChurnExample(tr, rw) ==
    \A src \in SourcesSeen :
        /\ OldCount(src, rw) = 4 /\ RecentCount(src, rw) = 0 => InChurn(tr, src)
        /\ OldCount(src, rw) = 2 => ~InChurn(tr, src)

\* C22 as stated: a source with 4 calls in the earliest half of the observed
\* weeks and none in the most recent 4 weeks is in the churn list, and a source
\* with only 2 calls in the earliest half is not.
C22_ChurnExample == Reported => \A rw \in {RowWeek} : ChurnExample(trend_stats[1].trends, rw)

ChurnExampleOfFrequent(tr, rw) ==
    \A src \in SourcesSeen :
        /\ CallsFrom(src) >= 5 /\ OldCount(src, rw) = 4 /\ RecentCount(src, rw) = 0
               => InChurn(tr, src) \/ ChurnFull(tr, 4)
        /\ OldCount(src, rw) = 2 => ~InChurn(tr, src)

\* C22 amended: a source with at least 5 calls in all, 4 of them in the earliest
\* half of the observed weeks and none in the most recent 4 weeks, is in the
\* churn list unless 15 sources with at least as many old calls fill it, and a
\* source with only 2 calls in the earliest half is not.
C22_ChurnExampleOfFrequent ==
    Reported => \A rw \in {RowWeek} : ChurnExampleOfFrequent(trend_stats[1].trends, rw)

ChurnExampleSeen(tr, rw) ==
    \E src \in SourcesSeen :
        /\ CallsFrom(src) = 5 /\ OldCount(src, rw) = 4 /\ RecentCount(src, rw) = 0
        /\ InChurn(tr, src)

C22_Witness ==
    Reported /\ \E rw \in {RowWeek} : ChurnExampleSeen(trend_stats[1].trends, rw)

\* ------------------------------------------------------------------ C23

\* every churn entry carries the counts of its source over the old and the
\* recent weeks, at least 3 and none
ChurnCounts(tr, rw) ==
    \A i \in DOMAIN tr.churn :
        /\ tr.churn[i].old_calls = OldCount(tr.churn[i].src, rw)
        /\ tr.churn[i].recent_calls = RecentCount(tr.churn[i].src, rw)
        /\ tr.churn[i].old_calls >= 3
        /\ tr.churn[i].recent_calls = 0

\* C23: every entry of the churn list has old_calls >= 3 and recent_calls = 0,
\* recent_calls being the calls of its source in the last min(4, W) of the W
\* observed weeks and old_calls those in the first max(W div 2, 1) weeks; the
\* entry carries the class (growing, declining or stable) of its source too.
C23_ChurnCounts ==
    Reported =>
        /\ \A rw \in {RowWeek} : ChurnCounts(trend_stats[1].trends, rw)
        /\ \A i \in DOMAIN trend_stats[1].trends.churn :
               trend_stats[1].trends.churn[i].trend \in {"crestere", "scadere", "stabil"}

\* a churned source that is in the declining list as well, seen over more than
\* 4 weeks and with calls outside the old weeks
C23_Witness ==
    /\ Reported
    /\ NumWeeks > 4
    /\ \E i \in DOMAIN trend_stats[1].trends.churn :
           /\ trend_stats[1].trends.churn[i].src \in Srcs(trend_stats[1].trends.scadere)
           /\ trend_stats[1].trends.churn[i].old_calls <
                  CallsFrom(trend_stats[1].trends.churn[i].src)

\* ------------------------------------------------------------------ C24

Frequent == {src \in SourcesSeen : CallsFrom(src) >= 5}

\* every entry of list is a source of at least 5 calls with its number of
\* calls, under the name linear_trend gives to its vector of weekly counts
ClassifiedByVector(list, rw, comp) ==
    \A i \in DOMAIN list :
        /\ list[i].src \in Frequent
        /\ list[i].total_calls = CallsFrom(list[i].src)
        /\ list[i].trend = linear_trend(CountVector(list[i].src, rw), comp)

\* no source is twice in list
OncePerSource(list) == \A i, j \in DOMAIN list : list[i].src = list[j].src => i = j

\* the lists before the cut hold the sources of at least 5 calls, each once,
\* under its own trend name
ExactlyOneClass(lists, rw, comp) ==
    /\ ClassifiedByVector(lists.crestere \o lists.scadere \o lists.stabil, rw, comp)
    /\ OncePerSource(lists.crestere \o lists.scadere \o lists.stabil)
    /\ Srcs(lists.crestere \o lists.scadere \o lists.stabil) = Frequent
    /\ \A i \in DOMAIN lists.crestere : lists.crestere[i].trend = "crestere"
    /\ \A i \in DOMAIN lists.scadere : lists.scadere[i].trend = "scadere"
    /\ \A i \in DOMAIN lists.stabil : lists.stabil[i].trend = "stabil"
    /\ Len(lists.crestere) + Len(lists.scadere) + Len(lists.stabil) = Cardinality(Frequent)
    /\ Srcs(lists.churn) \subseteq Frequent

\* the returned lists are taken from the lists before the cut
TakenFrom(tr, lists) ==
    /\ Srcs(tr.crestere) \subseteq Srcs(lists.crestere)
    /\ Srcs(tr.scadere) \subseteq Srcs(lists.scadere)
    /\ Srcs(tr.churn) \subseteq Srcs(lists.churn)
    /\ tr.stabil_count = Len(lists.stabil)

\* C24: compute_trend_stats classifies exactly the sources with at least 5
\* calls, each into exactly one of growing, declining and stable, by
\* linear_trend of its weekly counts over all observed year_week keys in
\* ascending order (0 for a week without calls); before the cut to 15 the sizes
\* of the growing and declining lists plus stabil_count equal the number of such
\* sources, and no source with fewer than 5 calls is in a trend or churn list.
C24_ExactlyOneClass ==
    Reported =>
        /\ \A rw \in {RowWeek} : ExactlyOneClass(trend_lists[1], rw, compensated)
        /\ TakenFrom(trend_stats[1].trends, trend_lists[1])

\* a declining and a stable source in one report, the declining one having
\* weeks without calls
C24_Witness ==
    /\ Reported
    /\ trend_lists[1].stabil # <<>>
    /\ \E rw \in {RowWeek} : \E i \in DOMAIN trend_lists[1].scadere :
           \E k \in 1..NumWeeks : CallsBetween(trend_lists[1].scadere[i].src, rw, k, k) = 0

\* a report with growing sources beyond the 15 that are returned
C24_WitnessCut ==
    /\ Reported
    /\ Len(trend_lists[1].crestere) > 15

\* ------------------------------------------------------------------ C25

WeekKeys(list) == [k \in DOMAIN list |-> list[k].week]

\* the n greatest of the observed year_week keys, ascending
GreatestWeeks(n) == LastN(SortedKeys(WeeksOf(rows)), n)

\* cut holds at most n entries, in descending order of the field read by Key,
\* and no entry of full left out has more than one that was kept
TopBy(cut, full, n, Key(_)) ==
    /\ Len(cut) = Min2(n, Len(full))
    /\ \A i \in DOMAIN cut : \E j \in DOMAIN full : full[j] = cut[i]
    /\ \A i, j \in DOMAIN cut : i < j => Key(cut[i]) >= Key(cut[j])
    /\ \A i \in DOMAIN cut :
           Cardinality({j \in DOMAIN full : Key(full[j]) > Key(cut[i])}) < i
    /\ \A i, j \in DOMAIN cut : cut[i].src = cut[j].src => i = j

TotalCallsOf(e) == e.total_calls
OldCallsOf(e) == e.old_calls

Truncated(report, lists) ==
    /\ WeekKeys(report.weekly) = GreatestWeeks(52)
    /\ WeekKeys(report.wait_evolution) = GreatestWeeks(52)
    /\ Len(report.weekly) <= 52
    /\ TopBy(report.trends.crestere, lists.crestere, 15, TotalCallsOf)
    /\ TopBy(report.trends.scadere, lists.scadere, 15, TotalCallsOf)
    /\ TopBy(report.trends.churn, lists.churn, 15, OldCallsOf)
    /\ report.trends.stabil_count = Len(lists.stabil)
    /\ report.trends.stabil_count = Cardinality(Srcs(lists.stabil))

\* C25: weekly and wait_evolution hold the 52 greatest year_week keys (all of
\* them when there are fewer) in ascending order; the growing and declining
\* lists hold at most 15 entries, those of highest total_calls in descending
\* order, the churn list at most 15, those of highest old_calls in descending
\* order; the stable sources are only counted, and the count is not cut.
C25_Truncated == Reported => Truncated(trend_stats[1], trend_lists[1])

\* more than 52 weeks and more than 15 declining and churned sources in one report
C25_Witness ==
    /\ Reported
    /\ NumWeeks > 52
    /\ Len(trend_stats[1].weekly) = 52
    /\ Len(trend_lists[1].scadere) > 15
    /\ Len(trend_lists[1].churn) > 15
    /\ Len(trend_stats[1].trends.churn) = 15

\* more than 15 stable sources, all counted
C25_WitnessStable == Reported /\ trend_stats[1].trends.stabil_count > 15

\* ------------------------------------------------------------------ invocations side by side

\* the log files and CSV files the invocations are given
QueueInputs ==
    {<<LineEnter1, LineConnect1, LineComplete1>>, <<LineEnter1, LineAbandon1>>,
     <<LineEnter1, LineRing1>>, <<LineEnter2, LineAbandon2, LineRing3>>}
CsvInputs == {<<RowOk, RowNoAnswer>>, <<RowNoAnswer, RowTransfer>>, <<RowExtension, RowOk>>}

\* the frame of a call of parse_queue_log on the lines input: calls is its dict
QueueFrame(input) ==
    [kind |-> "queue", input |-> input, days |-> None, now |-> NoTime,
     at |-> 1, acc |-> <<>>, out |-> None, overlapped |-> FALSE]

\* the frame of a call of parse_master_csv, then compute_trend_stats, on the
\* CSV rows input: rows is its list
CsvFrame(input) ==
    [kind |-> "csv", input |-> input, days |-> None, now |-> NowAt(0),
     at |-> 1, acc |-> <<>>, out |-> None, overlapped |-> FALSE]

Frames == {QueueFrame(i) : i \in QueueInputs} \cup {CsvFrame(i) : i \in CsvInputs}

Callers == {1, 2}

InitConc ==
    /\ lines = <<>>
    /\ calls = <<>>
    /\ pc = "idle"
    /\ result = NoResult
    /\ trunc = FALSE
    /\ file_exists = TRUE
    /\ sorted_list = <<>>
    /\ p = 0
    /\ res = None
    /\ res_val = None
    /\ stat_list = <<>>
    /\ stats = None
    /\ csv_rows = <<>>
    /\ rows = <<>>
    /\ days = None
    /\ now = NoTime
    /\ weekly_counts = <<>>
    /\ compensated \in BOOLEAN
    /\ trend = None
    /\ trend_stats = None
    /\ trend_lists = None
    /\ invocations \in {f \in [Callers -> Frames] : f[1].input # f[2].input}
    /\ SaveIdle
    /\ ExIdle

\* one dict (one list) read by all running calls of the same function
Own_Shared(frames, i) ==
    IF frames[1].kind = frames[i].kind THEN frames[1].acc ELSE frames[i].acc

\* the dict calls (the list rows) invocation i works on: a local of its frame
Own(frames, i) == frames[i].acc

\* the other invocation has started and has not returned
Running(frames, i) == frames[i].at > 1 /\ frames[i].out = None

Other(i) == 3 - i

\* invocation i takes a step that leaves its frame as after
StepOf(i, after) ==
    /\ invocations' =
           [invocations EXCEPT
               ![i] = [after EXCEPT
                          !.overlapped = @ \/ Running(invocations, Other(i))]]
    /\ UNCHANGED <<parserVars, pctVars, statVars, csvVars, trendVars, saveVars, exVars>>

\* invocation i of parse_queue_log reads its next line
ConcReadLine(i) ==
    /\ invocations[i].kind = "queue"
    /\ invocations[i].out = None
    /\ invocations[i].at <= Len(invocations[i].input)
    /\ StepOf(i, [invocations[i] EXCEPT
                     !.acc = ProcessLine(Own(invocations, i), invocations[i].input[invocations[i].at]),
                     !.at = @ + 1])

\* invocation i of parse_queue_log reaches the end of its file and returns
ConcFinish(i) ==
    /\ invocations[i].kind = "queue"
    /\ invocations[i].out = None
    /\ invocations[i].at > Len(invocations[i].input)
    /\ StepOf(i, [invocations[i] EXCEPT
                     !.acc = Finalize(Own(invocations, i)),
                     !.out = Some(Output(Own(invocations, i)))])

\* invocation i of parse_master_csv reads its next row
ConcReadRow(i) ==
    /\ invocations[i].kind = "csv"
    /\ invocations[i].out = None
    /\ invocations[i].at <= Len(invocations[i].input)
    /\ StepOf(i, [invocations[i] EXCEPT
                     !.acc = ProcessRow(Own(invocations, i), invocations[i].input[invocations[i].at],
                                        invocations[i].days, invocations[i].now),
                     !.at = @ + 1])

\* invocation i has its rows and returns compute_trend_stats of them
ConcTrendStats(i) ==
    /\ invocations[i].kind = "csv"
    /\ invocations[i].out = None
    /\ invocations[i].at > Len(invocations[i].input)
    /\ StepOf(i, [invocations[i] EXCEPT
                     !.out = Some(compute_trend_stats(Own(invocations, i), compensated))])

NextConc ==
    \E i \in Callers : ConcReadLine(i) \/ ConcFinish(i) \/ ConcReadRow(i) \/ ConcTrendStats(i)

SpecConc == InitConc /\ [][NextConc]_vars

\* ------------------------------------------------------------------ C26

\* what the invocation of frame returns when nothing else runs
RunAlone(frame, comp) ==
    IF frame.kind = "queue" THEN parse_queue_log(frame.input)
    ELSE compute_trend_stats(parse_master_csv(frame.input, frame.days, frame.now), comp)

\* C26: invocations of parse_queue_log with compute_stats, and of
\* parse_master_csv with compute_trend_stats, that run at the same time on
\* different inputs return, under every interleaving of their steps, what each
\* returns when it runs alone.
C26_NoInterference ==
    invocations # <<>> =>
        \A i \in Callers :
            invocations[i].out # None =>
                invocations[i].out[1] = RunAlone(invocations[i], compensated)

\* two calls of parse_queue_log on files that name the same call id, each
\* having taken steps while the other was under way, both returned
C26_Witness ==
    /\ invocations # <<>>
    /\ \A i \in Callers :
           /\ invocations[i].kind = "queue"
           /\ invocations[i].overlapped
           /\ invocations[i].out # None
           /\ invocations[i].input[1] = LineEnter1

\* ------------------------------------------------------------------ do_save_apeluri

\* calls of do_save_apeluri in a run
MaxSaves == 3

\* target dates, as day numbers
SaveDates == {1, 2}

\* the file do_save_apeluri finds at the path of its target date: none, or its lines
SaveFiles ==
    {None,
     Some(<<LineQueueStart>>),
     Some(<<LineEnter1, LineConnect1, LineComplete1>>),
     Some(<<LineEnter1, LineAbandon1, LineEnter2>>)}

\* result = parse_queue_log(file_path), for each of the files
ParseOf == [f \in SaveFiles |-> IF f = None THEN MissingOutput ELSE parse_queue_log(f[1])]

\* the columns of apeluri_zilnic set from stats, on the row id of date target
ZilnicRow(id, target, st) ==
    [id |-> id, data |-> target,
     total |-> st.total, answered |-> st.answered, abandoned |-> st.abandoned,
     answer_rate |-> st.answer_rate, abandon_rate |-> st.abandon_rate, asa |-> st.asa,
     waited_over_30 |-> st.waited_over_30,
     hold_answered_avg |-> st.hold_answered.avg,
     hold_answered_median |-> st.hold_answered.median,
     hold_answered_p90 |-> st.hold_answered.p90,
     hold_abandoned_avg |-> st.hold_abandoned.avg,
     hold_abandoned_median |-> st.hold_abandoned.median,
     hold_abandoned_p90 |-> st.hold_abandoned.p90,
     call_duration_avg |-> st.call_duration.avg,
     call_duration_median |-> st.call_duration.median,
     call_duration_p90 |-> st.call_duration.p90,
     hourly_data |-> st.hourly]

\* det = ApeluriDetalii(...) for one call
DetaliiRow(id, zilnic_id, call) ==
    [id |-> id, apeluri_zilnic_id |-> zilnic_id, callid |-> call.callid,
     caller_id |-> call.caller_id, agent |-> call.agent, status |-> call.status,
     ora |-> call.ora, hold_time |-> call.hold_time, call_time |-> call.call_time]

\* the loop over calls: one new row each, ids following last
InsertDetails(zilnic_id, call_list, last) ==
    {DetaliiRow(last + k, zilnic_id, call_list[k]) : k \in DOMAIN call_list}

\* the details of the day left in place
DeleteDetails_None(detalii, zilnic_id) == detalii

\* delete(ApeluriDetalii).where(ApeluriDetalii.apeluri_zilnic_id == zilnic.id)
DeleteDetails(detalii, zilnic_id) == {d \in detalii : d.apeluri_zilnic_id # zilnic_id}

\* select(ApeluriZilnic).where(ApeluriZilnic.data == target)
ZilnicOn(target) == {z \in apeluri_zilnic : z.data = target}

\* if zilnic: the 17 columns assigned, the old details deleted, the new inserted
UpdateZilnic(z, target, parsed) ==
    /\ apeluri_zilnic' = (apeluri_zilnic \ {z}) \cup {ZilnicRow(z.id, target, parsed.stats)}
    /\ apeluri_detalii' =
           DeleteDetails(apeluri_detalii, z.id)
               \cup InsertDetails(z.id, parsed.calls, id_seq.detalii)
    /\ id_seq' = [id_seq EXCEPT !.detalii = @ + Len(parsed.calls)]

\* else: a new row, flushed to get its id, and the details inserted
CreateZilnic(target, parsed) ==
    /\ apeluri_zilnic' = apeluri_zilnic \cup {ZilnicRow(id_seq.zilnic + 1, target, parsed.stats)}
    /\ apeluri_detalii' =
           apeluri_detalii \cup InsertDetails(id_seq.zilnic + 1, parsed.calls, id_seq.detalii)
    /\ id_seq' = [zilnic |-> id_seq.zilnic + 1, detalii |-> id_seq.detalii + Len(parsed.calls)]

\* if not stats.get("total", 0)
NoCallsFound(parsed) == parsed.stats.total = 0

\* do_save_apeluri(target) with parse result parsed, to its commit
SaveParsed(target, parsed) ==
    IF NoCallsFound(parsed) THEN UNCHANGED <<apeluri_zilnic, apeluri_detalii, id_seq>>
    ELSE IF ZilnicOn(target) # {}
         THEN UpdateZilnic(CHOOSE z \in ZilnicOn(target) : TRUE, target, parsed)
         ELSE CreateZilnic(target, parsed)

InitSave ==
    /\ lines = <<>>
    /\ calls = <<>>
    /\ pc = "idle"
    /\ result = NoResult
    /\ trunc = FALSE
    /\ file_exists = TRUE
    /\ sorted_list = <<>>
    /\ p = 0
    /\ res = None
    /\ res_val = None
    /\ stat_list = <<>>
    /\ stats = None
    /\ csv_rows = <<>>
    /\ rows = <<>>
    /\ days = None
    /\ now = NoTime
    /\ TrendIdle
    /\ ConcIdle
    /\ ExIdle
    /\ apeluri_zilnic = {}
    /\ apeluri_detalii = {}
    /\ id_seq = [zilnic |-> 0, detalii |-> 0]
    /\ save_log = <<>>

do_save_apeluri ==
    /\ Len(save_log) < MaxSaves
    /\ \E target \in SaveDates, f \in SaveFiles :
        /\ save_log' = Append(save_log, [target |-> target, file |-> f])
        /\ SaveParsed(target, ParseOf[f])
    /\ UNCHANGED <<parserVars, pctVars, statVars, csvVars, trendVars, invocations, exVars>>

NextSave == do_save_apeluri

SpecSave == InitSave /\ [][NextSave]_vars

\* ------------------------------------------------------------------ C28

\* the places in the log of the saves for date target that found calls
Effective(log, target) ==
    {k \in DOMAIN log : log[k].target = target /\ ParseOf[log[k].file].stats.total > 0}

\* the parse result of the last of them
LastEffective(log, target) ==
    ParseOf[log[CHOOSE k \in Effective(log, target) :
                    \A j \in Effective(log, target) : j <= k].file]

\* a row without its id
Content(row) == [f \in DOMAIN row \ {"id"} |-> row[f]]

\* the detail rows of zilnic row z are the calls of call_list, one row per call
DetailsAre(z, call_list) ==
    /\ Cardinality({d \in apeluri_detalii : d.apeluri_zilnic_id = z.id}) = Len(call_list)
    /\ \A k \in DOMAIN call_list :
           Cardinality({d \in apeluri_detalii : Content(d) = Content(DetaliiRow(0, z.id, call_list[k]))})
               = Cardinality({j \in DOMAIN call_list : call_list[j] = call_list[k]})

\* the store holds for date target what the saves in log leave there
UpsertedOn(log, target) ==
    IF Effective(log, target) = {} THEN ZilnicOn(target) = {}
    ELSE /\ Cardinality(ZilnicOn(target)) = 1
         /\ \A z \in ZilnicOn(target) :
                /\ Content(z) = Content(ZilnicRow(0, target, LastEffective(log, target).stats))
                /\ DetailsAre(z, LastEffective(log, target).calls)

\* every detail row hangs on a row of apeluri_zilnic
NoOrphans == \A d \in apeluri_detalii : \E z \in apeluri_zilnic : z.id = d.apeluri_zilnic_id

Upserted ==
    /\ \A target \in SaveDates : UpsertedOn(save_log, target)
    /\ NoOrphans
    /\ \A y, z \in apeluri_zilnic : y.id = z.id => y = z

\* the save just logged found no calls and left the tables as they were
SkippedSave(log) ==
    NoCallsFound(ParseOf[log[Len(log)].file]) =>
        UNCHANGED <<apeluri_zilnic, apeluri_detalii, id_seq>>

\* C28: after any sequence of do_save_apeluri calls the store holds at most one
\* apeluri_zilnic row per date; the row carries the statistics of the most
\* recent save for that date that found at least one call, and the
\* apeluri_detalii rows attached to it are exactly the calls of that save (so
\* the same result saved twice leaves the rows of saving it once, ids aside);
\* a save whose parse finds no calls leaves the store as it was.
C28_Upsert == [][Upserted' /\ SkippedSave(save_log')]_vars

\* a date saved with one call, with two, and then from a file without calls
C28_Witness ==
    /\ Len(save_log) = 3
    /\ save_log[1].target = save_log[2].target
    /\ save_log[2].target = save_log[3].target
    /\ ParseOf[save_log[1].file].total = 1
    /\ ParseOf[save_log[2].file].total = 2
    /\ ParseOf[save_log[3].file].total = 0
    /\ Cardinality(apeluri_detalii) = 2

\* ------------------------------------------------------------------ the exercitii table

\* dates, as day numbers
MaxDay == 3
Days == 1..MaxDay

AUTO_CLOSE_HOUR == 7
\* now.hour >= 7 in get_exercitiu_curent
StaleHour == 7

\* the hours the clock is read at: before and from the closing hour
ClockHours == {AUTO_CLOSE_HOUR - 1, AUTO_CLOSE_HOUR}

\* a row of exercitii: its date, activ, and whether ora_inchidere is set
ExRows == [data : Days, activ : BOOLEAN, closed : BOOLEAN]

\* Exercitiu(data=..., activ=True)
NewExercitiu(data) == [data |-> data, activ |-> TRUE, closed |-> FALSE]

\* select(Exercitiu).where(Exercitiu.activ == True)
ActiveRows(table) == {r \in table : r.activ}

\* select(Exercitiu).where(Exercitiu.data == day)
RowsOn(table, day) == {r \in table : r.data = day}

\* data is unique
UniqueDates(table) == \A q, r \in table : q.data = r.data => q = r

\* exercitiu.activ = False; exercitiu.ora_inchidere = ...
Closed(table, r) == (table \ {r}) \cup {[r EXCEPT !.activ = FALSE, !.closed = TRUE]}

\* exercitiu.activ = True
Reactivated(table, r) == (table \ {r}) \cup {[r EXCEPT !.activ = TRUE]}

\* the open exercitii left open
DeactivateAll_None(table) == table

\* UPDATE exercitii SET activ = false WHERE activ = true
DeactivateAll(table) == {[r EXCEPT !.activ = FALSE] : r \in table}

\* the date of the active row, if there is one
ActiveDate(table) ==
    IF ActiveRows(table) = {} THEN None
    ELSE Some((CHOOSE r \in ActiveRows(table) : TRUE).data)

\* what the operation leaves in ex_op
Op(name, today, hour, outcome) ==
    [op |-> name, today |-> today, hour |-> hour, was_active |-> ActiveDate(exercitii),
     outcome |-> outcome]

InitEx ==
    /\ lines = <<>>
    /\ calls = <<>>
    /\ pc = "idle"
    /\ result = NoResult
    /\ trunc = FALSE
    /\ file_exists = TRUE
    /\ sorted_list = <<>>
    /\ p = 0
    /\ res = None
    /\ res_val = None
    /\ stat_list = <<>>
    /\ stats = None
    /\ csv_rows = <<>>
    /\ rows = <<>>
    /\ days = None
    /\ now = NoTime
    /\ TrendIdle
    /\ ConcIdle
    /\ SaveIdle
    /\ exercitii \in {t \in SUBSET ExRows :
                         UniqueDates(t) /\ Cardinality(ActiveRows(t)) <= 1}
    /\ ex_op = None

\* what the operations on exercitii leave alone
besideEx == <<parserVars, pctVars, statVars, csvVars, trendVars, invocations, saveVars>>

\* scalar_one_or_none() on more than one active row
TooMany(table) == Cardinality(ActiveRows(table)) > 1

TheActive(table) == CHOOSE r \in ActiveRows(table) : TRUE

\* get_exercitiu_activ: the insert of a second row for today is refused at commit
GetActiv(table, today) ==
    IF ActiveRows(table) # {} \/ RowsOn(table, today) # {} THEN table
    ELSE table \cup {NewExercitiu(today)}

GetActivOutcome(table, today) ==
    IF TooMany(table) THEN "MultipleResultsFound"
    ELSE IF ActiveRows(table) = {} /\ RowsOn(table, today) # {} THEN "IntegrityError"
    ELSE "ok"

get_exercitiu_activ ==
    \E today \in Days, hour \in ClockHours :
        /\ exercitii' = IF TooMany(exercitii) THEN exercitii ELSE GetActiv(exercitii, today)
        /\ ex_op' = Op("get_exercitiu_activ", today, hour, GetActivOutcome(exercitii, today))
        /\ UNCHANGED besideEx

\* if exercitiu and exercitiu.data < today and now.hour >= 7
Stale(table, today, hour) ==
    /\ ActiveRows(table) # {}
    /\ TheActive(table).data < today
    /\ hour >= StaleHour

\* if not exercitiu: today's row reactivated, or a new one added
OpenToday(table, today) ==
    IF RowsOn(table, today) # {}
    THEN Reactivated(table, CHOOSE r \in RowsOn(table, today) : TRUE)
    ELSE table \cup {NewExercitiu(today)}

GetCurent(table, today, hour) ==
    IF Stale(table, today, hour) THEN OpenToday(Closed(table, TheActive(table)), today)
    ELSE IF ActiveRows(table) = {} THEN OpenToday(table, today)
    ELSE table

get_exercitiu_curent ==
    \E today \in Days, hour \in ClockHours :
        /\ exercitii' =
               IF TooMany(exercitii) THEN exercitii ELSE GetCurent(exercitii, today, hour)
        /\ ex_op' = Op("get_exercitiu_curent", today, hour,
                       IF TooMany(exercitii) THEN "MultipleResultsFound" ELSE "ok")
        /\ UNCHANGED besideEx

\* create_exercitiu for the date data_ex (data.data or date.today())
Created(table, data_ex) ==
    IF RowsOn(table, data_ex) # {} THEN table
    ELSE DeactivateAll(table) \cup {NewExercitiu(data_ex)}

\* today in ex_op is the date asked for
create_exercitiu ==
    \E hour \in ClockHours, data_ex \in Days :
        /\ exercitii' = Created(exercitii, data_ex)
        /\ ex_op' = Op("create_exercitiu", data_ex, hour,
                       IF RowsOn(exercitii, data_ex) # {} THEN "400" ELSE "ok")
        /\ UNCHANGED besideEx

inchide_exercitiu ==
    \E today \in Days, hour \in ClockHours :
        /\ exercitii' =
               IF TooMany(exercitii) \/ ActiveRows(exercitii) = {} THEN exercitii
               ELSE Closed(exercitii, TheActive(exercitii))
        /\ ex_op' = Op("inchide_exercitiu", today, hour,
                       IF TooMany(exercitii) THEN "MultipleResultsFound"
                       ELSE IF ActiveRows(exercitii) = {} THEN "404" ELSE "ok")
        /\ UNCHANGED besideEx

\* # Open new exercitiu for today: only when no row is dated today
AutoOpen(table, today) ==
    IF RowsOn(table, today) = {} THEN table \cup {NewExercitiu(today)} ELSE table

\* _do_auto_close: the active row is closed whatever its date
AutoClose(table, today) ==
    AutoOpen(IF ActiveRows(table) = {} THEN table ELSE Closed(table, TheActive(table)), today)

_do_auto_close ==
    \E today \in Days :
        /\ exercitii' = IF TooMany(exercitii) THEN exercitii ELSE AutoClose(exercitii, today)
        /\ ex_op' = Op("_do_auto_close", today, AUTO_CLOSE_HOUR,
                       IF TooMany(exercitii) THEN "MultipleResultsFound" ELSE "ok")
        /\ UNCHANGED besideEx

NextEx ==
    \/ get_exercitiu_activ
    \/ get_exercitiu_curent
    \/ create_exercitiu
    \/ inchide_exercitiu
    \/ _do_auto_close

SpecEx == InitEx /\ [][NextEx]_vars

\* ------------------------------------------------------------------ C29

\* the last operation was name and it committed
Committed(name) == ex_op # None /\ ex_op.op = name /\ ex_op.outcome = "ok"

\* C29: after _do_auto_close commits, the exercitiu that was active before it
\* has activ = false and there is an exercitiu dated today with activ = true.
C29_AutoCloseOpensToday ==
    Committed("_do_auto_close") =>
        /\ ex_op.was_active # None =>
               \A r \in RowsOn(exercitii, ex_op.was_active[1]) : ~r.activ
        /\ \E r \in RowsOn(exercitii, ex_op.today) : r.activ

\* ------------------------------------------------------------------ C30

\* C30: at most one exercitiu is active at any time and no two rows share a
\* date, after any sequence of get_exercitiu_activ, get_exercitiu_curent,
\* create_exercitiu, inchide_exercitiu and _do_auto_close run one at a time on
\* any date and hour from a store with at most one active exercitiu.
C30_OneActive ==
    /\ Cardinality(ActiveRows(exercitii)) <= 1
    /\ UniqueDates(exercitii)

\* create_exercitiu has opened a date while the exercitiu of another date was
\* active, and the table holds both rows
C30_Witness ==
    /\ Committed("create_exercitiu")
    /\ ex_op.was_active # None
    /\ Cardinality(exercitii) >= 2
    /\ Cardinality(ActiveRows(exercitii)) = 1

\* ------------------------------------------------------------------ C27

\* the record of the call of line l before the line is read: the one in the
\* dict, or the one the line creates
Prior(cs, l) ==
    IF HasCall(cs, CallIdOf(l)) THEN cs[IndexOf(cs, CallIdOf(l))]
    ELSE NewCall(CallIdOf(l), Fields(l)[3])

\* a COMPLETE* line with two data fields of which one is no integer
BadComplete(l) ==
    /\ Accepted(l)
    /\ EventOf(l) \in {COMPLETEAGENT, COMPLETECALLER}
    /\ Len(DataOf(l)) >= 2
    /\ ~IsInt(DataOf(l)[1]) \/ ~IsInt(DataOf(l)[2])

CompleteKeepsBoth(l) ==
    LET old == Prior(calls, l)
        new == calls'[IndexOf(calls', CallIdOf(l))]
    IN  /\ new.hold_time = old.hold_time
        /\ new.call_time = old.call_time
        /\ new.end_time = Some(IntVal(Fields(l)[1]))
        /\ new.agent = ReplaceSip(ChannelOf(l))
        /\ new.status = "COMPLETAT"

(* C27: when a COMPLETEAGENT / COMPLETECALLER line has at least 2 data      *)
(* fields and one of the first two is no integer, hold_time and call_time   *)
(* both keep the values they had before the line, while end_time, agent     *)
(* and the status COMPLETAT are set.                                        *)
C27_CompleteKeepsBoth ==
    [][\A l \in LinePool : (Read(l) /\ BadComplete(l)) => CompleteKeepsBoth(l)]_vars

====
